---- MODULE Spec2Model ----
(***************************************************************************)
(* A model of medicalc: the CHA2DS2-VA / CHA2DS2-VASc score builders, the  *)
(* range classifier and the calculators over unit-tagged quantities.       *)
(*                                                                         *)
(* Every f64 of the source is an IEEE 754 binary64 value here: a sign, a   *)
(* 53-bit significand and a binary exponent, with every arithmetic         *)
(* operation rounded to nearest, ties to even, as the hardware does.  The  *)
(* significand does not fit a TLC integer, so it is kept as a sequence of  *)
(* 14-bit limbs, least significant first.  NaN, the infinities, negative   *)
(* zero and subnormals are outside the model: no input of the model and no *)
(* intermediate result comes near the exponent range's ends.  The libm     *)
(* functions (ln, powf) are computed in fixed point and rounded to the     *)
(* nearest f64.                                                            *)
(***************************************************************************)
EXTENDS Integers, Sequences, FiniteSets

----------------------------------------------------------------------------
(* Natural numbers of any size: limbs of LimbBits bits, least significant  *)
(* first, no leading zero limb (zero is the empty sequence).               *)

LimbBits == 14

Base == 2^LimbBits

RECURSIVE BigOfInt(_)
BigOfInt(n) == IF n = 0 THEN <<>> ELSE <<n % Base>> \o BigOfInt(n \div Base)

RECURSIVE BigNorm(_)
BigNorm(a) ==
    IF a = <<>> THEN <<>>
    ELSE IF a[Len(a)] = 0 THEN BigNorm(SubSeq(a, 1, Len(a) - 1))
    ELSE a

Limb(a, i) == IF i >= 1 /\ i <= Len(a) THEN a[i] ELSE 0

MaxOf(x, y) == IF x >= y THEN x ELSE y

MinOf(x, y) == IF x <= y THEN x ELSE y

(* -1, 0 or 1 as a < b, a = b, a > b; from limb i downwards. *)
RECURSIVE BigCmpFrom(_, _, _)
BigCmpFrom(a, b, i) ==
    IF i = 0 THEN 0
    ELSE IF Limb(a, i) < Limb(b, i) THEN -1
    ELSE IF Limb(a, i) > Limb(b, i) THEN 1
    ELSE BigCmpFrom(a, b, i - 1)

BigCmp(a, b) == BigCmpFrom(a, b, MaxOf(Len(a), Len(b)))

(* Limbs i.. of a + b + carry. *)
RECURSIVE BigAddFrom(_, _, _, _)
BigAddFrom(a, b, i, carry) ==
    IF i > Len(a) /\ i > Len(b)
    THEN IF carry = 0 THEN <<>> ELSE <<carry>>
    ELSE LET s == Limb(a, i) + Limb(b, i) + carry
         IN  <<s % Base>> \o BigAddFrom(a, b, i + 1, s \div Base)

BigAdd(a, b) == BigAddFrom(a, b, 1, 0)

(* Limbs i.. of a - b - borrow, for a >= b. *)
RECURSIVE BigSubFrom(_, _, _, _)
BigSubFrom(a, b, i, borrow) ==
    IF i > Len(a) THEN <<>>
    ELSE LET d == Limb(a, i) - Limb(b, i) - borrow
         IN  IF d < 0
             THEN <<d + Base>> \o BigSubFrom(a, b, i + 1, 1)
             ELSE <<d>> \o BigSubFrom(a, b, i + 1, 0)

BigSub(a, b) == BigNorm(BigSubFrom(a, b, 1, 0))

(* Column k of the schoolbook product: the sum of a[i] * b[k + 1 - i]. *)
RECURSIVE BigMulCol(_, _, _, _)
BigMulCol(a, b, k, i) ==
    IF i > Len(a) THEN 0
    ELSE Limb(a, i) * Limb(b, k + 1 - i) + BigMulCol(a, b, k, i + 1)

(* The columns are summed one product at a time into a carry that stays    *)
(* below 2^31: a column of four 28-bit products plus the carry.            *)
RECURSIVE BigMulFrom(_, _, _, _)
BigMulFrom(a, b, k, carry) ==
    IF k > Len(a) + Len(b)
    THEN IF carry = 0 THEN <<>> ELSE <<carry>>
    ELSE LET s == BigMulCol(a, b, k, 1) + carry
         IN  <<s % Base>> \o BigMulFrom(a, b, k + 1, s \div Base)

BigMul(a, b) ==
    IF a = <<>> \/ b = <<>> THEN <<>> ELSE BigNorm(BigMulFrom(a, b, 1, 0))

Zeros(n) == [i \in 1..n |-> 0]

(* a * 2^n *)
BigShl(a, n) ==
    IF a = <<>> THEN <<>>
    ELSE Zeros(n \div LimbBits) \o BigMul(a, <<2^(n % LimbBits)>>)

(* floor(a / 2^n) *)
BigShr(a, n) ==
    LET drop == n \div LimbBits
        r    == n % LimbBits
        rest == IF drop >= Len(a) THEN <<>> ELSE SubSeq(a, drop + 1, Len(a))
    IN  BigNorm([i \in 1..Len(rest) |->
                    (rest[i] \div 2^r) + (Limb(rest, i + 1) % 2^r) * 2^(LimbBits - r)])

RECURSIVE BitLenInt(_)
BitLenInt(n) == IF n = 0 THEN 0 ELSE 1 + BitLenInt(n \div 2)

BigBitLen(a) ==
    IF a = <<>> THEN 0 ELSE (Len(a) - 1) * LimbBits + BitLenInt(a[Len(a)])

BigIsOdd(a) == a # <<>> /\ a[1] % 2 = 1

BigOne == <<1>>

----------------------------------------------------------------------------
(* IEEE 754 binary64.  A value is [sign, mant, exp]: (-1)^sign * mant *    *)
(* 2^exp with 2^52 <= mant < 2^53, or zero (mant empty, exp 0, sign 0).    *)
(* The representation is canonical, so f64 equality is record equality.    *)

MantBits == 53

F64Zero == [sign |-> 0, mant |-> <<>>, exp |-> 0]

(* The operators below take their arguments by value, as the machine      *)
(* does: CHOOSE r \in {e(x) : x \in {a}} : TRUE is e(a) with a evaluated    *)
(* once, where e(a) alone evaluates a at each of its occurrences in e.     *)

(* q rounded up or not, renormalised when the carry runs over. *)
F64Carry(sign, q, E, up) ==
    CHOOSE r \in {IF BigBitLen(q2) > MantBits
                  THEN [sign |-> sign, mant |-> BigShr(q2, 1), exp |-> E + 1]
                  ELSE [sign |-> sign, mant |-> q2, exp |-> E] :
                  q2 \in {IF up THEN BigAdd(q, BigOne) ELSE q}} : TRUE

(* The f64 nearest to (-1)^sign * M * 2^E (plus a little more when sticky  *)
(* is set: a remainder below the last bit of M), ties to even.             *)
F64Round(sign, M, E, sticky) ==
    CHOOSE r \in
        {LET L == BigBitLen(m)
         IN  IF L = 0 THEN F64Zero
             ELSE IF L <= MantBits
             THEN [sign |-> sign, mant |-> BigShl(m, MantBits - L),
                   exp |-> E - (MantBits - L)]
             ELSE LET sh   == L - MantBits
                      q    == BigShr(m, sh)
                      c    == BigCmp(BigSub(m, BigShl(q, sh)), BigShl(BigOne, sh - 1))
                  IN  F64Carry(sign, q, E + sh,
                               c > 0 \/ (c = 0 /\ (sticky \/ BigIsOdd(q)))) :
         m \in {M}} : TRUE

(* An integer as an f64 (the literals 75.0, 18.0, ...). *)
F64FromInt(n) ==
    IF n >= 0 THEN F64Round(0, BigOfInt(n), 0, FALSE)
    ELSE F64Round(1, BigOfInt(-n), 0, FALSE)

F64Neg(a) == IF a.mant = <<>> THEN a ELSE [a EXCEPT !.sign = 1 - a.sign]

F64Mul(a, b) ==
    CHOOSE r \in
        {IF x.mant = <<>> \/ y.mant = <<>> THEN F64Zero
         ELSE F64Round((x.sign + y.sign) % 2, BigMul(x.mant, y.mant), x.exp + y.exp,
                       FALSE) :
         x \in {a}, y \in {b}} : TRUE

(* Limbs of quotient computed below the leading one: enough for the        *)
(* rounding to see the bits under the significand.                         *)
DivLimbs == 4

RECURSIVE BigToInt(_)
BigToInt(a) == IF a = <<>> THEN 0 ELSE a[1] + Base * BigToInt(Tail(a))

(* q too small by a few: raise it until the remainder is below D. *)
RECURSIVE DivFix(_, _, _)
DivFix(q, rem, D) ==
    IF BigCmp(rem, D) >= 0
    THEN CHOOSE qr \in {DivFix(q + 1, r, D) : r \in {BigSub(rem, D)}} : TRUE
    ELSE <<q, rem>>

(* <<floor(R / D), R mod D>> for R < D * Base: the quotient limb is        *)
(* estimated from the leading bits of R and D, from below, then corrected. *)
DivDigit(R, D) ==
    CHOOSE qr \in
        {DivFix(est[1], est[2], D) :
         est \in {<<e, BigSub(R, BigMul(D, BigOfInt(e)))>> :
                  e \in {BigToInt(BigShr(R, BigBitLen(D) - LimbBits))
                           \div (BigToInt(BigShr(D, BigBitLen(D) - LimbBits)) + 1)}}} : TRUE

(* Long division: the k limbs of floor(R * Base^k / D) below the limbs     *)
(* acc already computed (least significant first), then the remainder.     *)
RECURSIVE DivDigits(_, _, _, _)
DivDigits(R, D, k, acc) ==
    IF k = 0 THEN <<acc, R>>
    ELSE CHOOSE qr \in
            {DivDigits(dr[2], D, k - 1, <<dr[1]>> \o acc) :
             dr \in {DivDigit(BigShl(R, LimbBits), D)}} : TRUE

(* x / y for f64 values x and y, y not zero. *)
F64Quot(x, y) ==
    CHOOSE r \in
        {F64Round((x.sign + y.sign) % 2, BigNorm(qr[1]),
                  x.exp - y.exp - DivLimbs * LimbBits, qr[2] # <<>>) :
         qr \in {DivDigits(d0[2], y.mant, DivLimbs, <<d0[1]>>) :
                 d0 \in {DivDigit(x.mant, y.mant)}}} : TRUE

F64Div(a, b) ==
    CHOOSE r \in
        {IF x.mant = <<>> THEN F64Zero ELSE F64Quot(x, y) :
         x \in {a}, y \in {b}} : TRUE

F64Add(a, b) ==
    CHOOSE r \in
        {IF x.mant = <<>> THEN y
         ELSE IF y.mant = <<>> THEN x
         ELSE LET e  == MinOf(x.exp, y.exp)
                  Ma == BigShl(x.mant, x.exp - e)
                  Mb == BigShl(y.mant, y.exp - e)
                  c  == BigCmp(Ma, Mb)
              IN  IF x.sign = y.sign THEN F64Round(x.sign, BigAdd(Ma, Mb), e, FALSE)
                  ELSE IF c = 0 THEN F64Zero
                  ELSE IF c > 0 THEN F64Round(x.sign, BigSub(Ma, Mb), e, FALSE)
                  ELSE F64Round(y.sign, BigSub(Mb, Ma), e, FALSE) :
         x \in {a}, y \in {b}} : TRUE

F64Sub(a, b) == F64Add(a, F64Neg(b))

(* -1, 0 or 1 as a < b, a = b, a > b. *)
F64Cmp(a, b) ==
    CHOOSE r \in
        {LET mag == IF x.exp # y.exp
                    THEN (IF x.exp < y.exp THEN -1 ELSE 1)
                    ELSE BigCmp(x.mant, y.mant)
         IN  IF x.mant = <<>> /\ y.mant = <<>> THEN 0
             ELSE IF x.mant = <<>> THEN (IF y.sign = 0 THEN -1 ELSE 1)
             ELSE IF y.mant = <<>> THEN (IF x.sign = 0 THEN 1 ELSE -1)
             ELSE IF x.sign # y.sign THEN (IF x.sign = 1 THEN -1 ELSE 1)
             ELSE IF x.sign = 0 THEN mag ELSE 0 - mag :
         x \in {a}, y \in {b}} : TRUE

F64Lt(a, b) == F64Cmp(a, b) < 0

F64Le(a, b) == F64Cmp(a, b) <= 0

F64Ge(a, b) == F64Cmp(a, b) >= 0

F64Abs(a) == [a EXCEPT !.sign = 0]

(* The f64 a decimal literal n / d denotes (d a power of ten): the f64     *)
(* nearest to the quotient, which one correctly rounded division of the    *)
(* two exactly representable integers gives.                               *)
Lit(n, d) == F64Div(F64FromInt(n), F64FromInt(d))

(* f64::recip: 1.0 / x *)
F64Recip(x) == F64Div(F64FromInt(1), x)

(* f64::max and f64::min *)
F64Max(a, b) == CHOOSE r \in {IF F64Lt(x, y) THEN y ELSE x : x \in {a}, y \in {b}} : TRUE

F64Min(a, b) == CHOOSE r \in {IF F64Lt(y, x) THEN y ELSE x : x \in {a}, y \in {b}} : TRUE

(* f64::round: the nearest integer, halves away from zero. *)
F64RoundInt(a) ==
    CHOOSE r \in
        {IF x.mant = <<>> \/ x.exp >= 0 THEN x
         ELSE F64Round(x.sign,
                       BigShr(BigAdd(x.mant, BigShl(BigOne, (0 - x.exp) - 1)), 0 - x.exp),
                       0, FALSE) :
         x \in {a}} : TRUE

(* f64 as u8, had the cast wrapped around modulo 256 instead of saturating. *)
F64AsU8_wrapping(a) ==
    CHOOSE n \in
        {IF x.mant = <<>> \/ x.exp >= 0 THEN 0
         ELSE IF x.sign = 1 THEN (256 - (BigToInt(BigShr(x.mant, 0 - x.exp)) % 256)) % 256
         ELSE BigToInt(BigShr(x.mant, 0 - x.exp)) % 256 :
         x \in {a}} : TRUE

(* f64 as u8: truncated toward zero and saturated to 0..255 *)
F64AsU8(a) ==
    CHOOSE n \in
        {IF x.mant = <<>> \/ x.sign = 1 THEN 0
         ELSE IF x.exp >= 0 THEN 255
         ELSE IF BigCmp(BigShr(x.mant, 0 - x.exp), <<255>>) > 0 THEN 255
         ELSE BigToInt(BigShr(x.mant, 0 - x.exp)) :
         x \in {a}} : TRUE

----------------------------------------------------------------------------
(* f64::ln and f64::powf.  The source calls the platform's libm; the model *)
(* computes the logarithm and the power in fixed point with FixBits bits   *)
(* after the binary point and rounds the result to the nearest f64, which  *)
(* is what libm returns for the arguments of the model.  A fixed-point     *)
(* number is a natural number of units of 2^-FixBits, or a record          *)
(* [neg, mag] where it can be negative.                                    *)

FixLimbs == 7

FixBits == FixLimbs * LimbBits

FixOne == BigShl(BigOne, FixBits)

(* ln 2 in fixed point *)
FixLn2 == <<3680, 7739, 10994, 3961, 8007, 8575, 11356>>

FixMul(a, b) == BigShr(BigMul(a, b), FixBits)

(* floor(a / n) for a small positive integer n, from limb i downwards. *)
RECURSIVE BigDivSmallFrom(_, _, _, _)
BigDivSmallFrom(a, n, i, rem) ==
    IF i = 0 THEN <<>>
    ELSE BigDivSmallFrom(a, n, i - 1, (rem * Base + a[i]) % n)
            \o <<(rem * Base + a[i]) \div n>>

BigDivSmall(a, n) == BigNorm(BigDivSmallFrom(a, n, Len(a), 0))

(* z + z^3 / 3 + z^5 / 5 + ...: pow is z^n, z2 is z^2, acc the sum so far. *)
RECURSIVE AtanhSeries(_, _, _, _)
AtanhSeries(pow, z2, n, acc) ==
    IF pow = <<>> THEN acc
    ELSE CHOOSE r \in
            {AtanhSeries(p, z2, n + 2, a) :
             p \in {FixMul(pow, z2)}, a \in {BigAdd(acc, BigDivSmall(pow, n))}} : TRUE

(* |ln(m / 2^s)| in fixed point, for m / 2^s between 1/2 and 2:            *)
(* 2 atanh(|m - 2^s| / (m + 2^s)).                                         *)
FixLnNear1(m, s) ==
    CHOOSE r \in
        {BigShl(AtanhSeries(z, FixMul(z, z), 1, <<>>), 1) :
         z \in {BigNorm(DivDigits(IF BigCmp(m, p2) >= 0 THEN BigSub(m, p2) ELSE BigSub(p2, m),
                                  BigAdd(m, p2), FixLimbs, <<>>)[1]) :
                p2 \in {BigShl(BigOne, s)}}} : TRUE

(* a - b for fixed-point naturals, signed *)
FixDiff(a, b) ==
    IF BigCmp(a, b) >= 0 THEN [neg |-> FALSE, mag |-> BigSub(a, b)]
    ELSE [neg |-> TRUE, mag |-> BigSub(b, a)]

(* ln x in fixed point for an f64 x > 0.  x is y * 2^k with y between      *)
(* 0.7 and 1.4, and ln x = k ln 2 + ln y.                                   *)
FixLn(x) ==
    CHOOSE r \in
        {LET k    == x.exp + (IF half THEN MantBits ELSE MantBits - 1)
             lny  == FixLnNear1(x.mant, IF half THEN MantBits ELSE MantBits - 1)
             kln2 == BigMul(FixLn2, BigOfInt(IF k >= 0 THEN k ELSE 0 - k))
         IN  IF half
             THEN (* ln y <= 0 *)
                  IF k >= 0 THEN FixDiff(kln2, lny)
                  ELSE [neg |-> TRUE, mag |-> BigAdd(kln2, lny)]
             ELSE IF k >= 0 THEN [neg |-> FALSE, mag |-> BigAdd(kln2, lny)]
                  ELSE FixDiff(lny, kln2) :
         (* y above 1.4: take y / 2, below 1 *)
         half \in {BigCmp(BigShr(x.mant, MantBits - 1 - LimbBits), <<6553, 1>>) > 0}} : TRUE

(* f64::ln, for x > 0 *)
F64Ln(x) ==
    CHOOSE r \in
        {F64Round(IF l.neg THEN 1 ELSE 0, l.mag, 0 - FixBits, TRUE) :
         l \in {FixLn(x)}} : TRUE

(* 1 + r + r^2 / 2! + r^3 / 3! + ...: term is r^(n-1) / (n-1)!. *)
RECURSIVE ExpSeries(_, _, _, _)
ExpSeries(term, r, n, acc) ==
    IF term = <<>> THEN acc
    ELSE CHOOSE e \in
            {ExpSeries(t, r, n + 1, a) :
             t \in {BigDivSmall(FixMul(term, r), n)}, a \in {BigAdd(acc, term)}} : TRUE

(* e^w as an f64, for a fixed-point w: w is q ln 2 + r with 0 <= r < ln 2, *)
(* and e^w = e^r * 2^q.                                                    *)
F64ExpFix(w) ==
    CHOOSE e \in
        {LET q == IF ~w.neg THEN qr[1] ELSE IF qr[2] = <<>> THEN 0 - qr[1] ELSE 0 - (qr[1] + 1)
             r == IF ~w.neg \/ qr[2] = <<>> THEN qr[2] ELSE BigSub(FixLn2, qr[2])
         IN  F64Round(0, ExpSeries(FixOne, r, 1, <<>>), q - FixBits, TRUE) :
         qr \in {DivDigit(w.mag, FixLn2)}} : TRUE

(* f64::powf, for x > 0: e^(y ln x) *)
F64Powf(x, y) ==
    CHOOSE p \in
        {IF b.mant = <<>> THEN F64FromInt(1)
         ELSE F64ExpFix([neg |-> l.neg # (b.sign = 1),
                         mag |-> IF b.exp >= 0 THEN BigShl(BigMul(l.mag, b.mant), b.exp)
                                 ELSE BigShr(BigMul(l.mag, b.mant), 0 - b.exp)]) :
         l \in {FixLn(x)}, b \in {y}} : TRUE

----------------------------------------------------------------------------
(* State.  The program is a library: the model runs one object or one call *)
(* of it at a time.                                                        *)
(*   va, vasc    the score builder under construction (a Cha2Ds2VA or a    *)
(*               ChadsVasc; the other one is NoBuilder)                    *)
(*   call        the last operation applied to the builder and what it     *)
(*               returned                                                  *)
(*   calc_done   whether calculate() has been applied to the builder       *)
(*   na_in, glu_in, na_out   the arguments and the result of a call of     *)
(*               correct_na_for_glucose                                    *)
(*   range_in, range_out     the argument and the result of a range        *)
(*               classification                                            *)
(*   lits        the decimal literals the caller wrote for the f64         *)
(*               arguments of the call, as <<numerator, denominator>>      *)
(*   conv        a quantity being converted between the units of its kind  *)
(*   calc        the arguments and the result of a call of bmi, meld or    *)
(*               egfr_ckd_epi                                              *)

VARIABLES va, vasc, call, calc_done, na_in, glu_in, na_out, range_in, range_out,
          lits, conv, calc

vars == <<va, vasc, call, calc_done, na_in, glu_in, na_out, range_in, range_out,
          lits, conv, calc>>

(* No builder of this type has been constructed. *)
NoBuilder == [builder |-> "none"]

(* Option<T>: None, Some(x) *)
None == <<>>

Some(x) == <<x>>

(* No quantity: the call has not been made, or is not the one modelled. *)
NoQuantity == [quantity |-> "none"]

NoResult == "NoResult"

----------------------------------------------------------------------------
(* history.rs *)

Gender == {"Female", "Male"}

(* The ages the builders are constructed with, as the decimal literals the *)
(* caller writes, in tenths of a year (64.9 is 649).                       *)
YearsTenths == {500, 649, 650, 749, 750, 1000}

(* Years(f64) *)
Years == {Lit(t, 10) : t \in YearsTenths}

----------------------------------------------------------------------------
(* calculators/cha2ds2_va.rs *)

(* The literals of the table, in tenths (0.5 is 5): (annual stroke risk %   *)
(* without, with anticoagulation), by score.                               *)
CHADS_VA_TENTHS ==
    << <<5, 2>>, <<15, 5>>, <<29, 10>>, <<51, 18>>, <<73, 26>>,
       <<112, 39>>, <<155, 54>>, <<147, 51>>, <<195, 68>> >>

(* [(f64, f64); 9], indexed from 0. *)
CHADS_VA_STROKE_RISK_PCT_ANNUAL ==
    [i \in 0..(Len(CHADS_VA_TENTHS) - 1) |->
        <<Lit(CHADS_VA_TENTHS[i + 1][1], 10), Lit(CHADS_VA_TENTHS[i + 1][2], 10)>>]

(* table[index as usize] of a fixed-size array: panics when the index is   *)
(* out of bounds.                                                          *)
InBounds(table, i) == i \in DOMAIN table

Index(table, i) == table[i]

(* .iter().filter(|&p| *p).count() *)
RECURSIVE CountTrue(_)
CountTrue(flags) ==
    IF flags = <<>> THEN 0
    ELSE (IF Head(flags) THEN 1 ELSE 0) + CountTrue(Tail(flags))

(* u8 arithmetic *)
U8(n) == n % 256

Cha2Ds2VA_new(age) ==
    [age |-> age, chf |-> FALSE, diabetes |-> FALSE, htn |-> FALSE,
     stroke |-> FALSE, vasc |-> FALSE, score |-> None]

(* has_chf, had it rebuilt the struct from its defaults. *)
Cha2Ds2VA_has_chf_resets(self) == [self EXCEPT !.chf = TRUE, !.score = None]

Cha2Ds2VA_has_chf(self) == [self EXCEPT !.chf = TRUE]

Cha2Ds2VA_has_diabetes(self) == [self EXCEPT !.diabetes = TRUE]

Cha2Ds2VA_has_htn(self) == [self EXCEPT !.htn = TRUE]

Cha2Ds2VA_has_stroke_hx(self) == [self EXCEPT !.stroke = TRUE]

Cha2Ds2VA_has_vascular_hx(self) == [self EXCEPT !.vasc = TRUE]

(* The age points, had the cut points been exclusive. *)
Cha2Ds2VA_age_tally_exclusive(age) ==
    IF F64Lt(F64FromInt(75), age) THEN 2
    ELSE IF F64Lt(F64FromInt(65), age) THEN 1
    ELSE 0

Cha2Ds2VA_age_tally(age) ==
    IF F64Ge(age, F64FromInt(75)) THEN 2
    ELSE IF F64Ge(age, F64FromInt(65)) THEN 1
    ELSE 0

(* calculate, had it left the score unset. *)
Cha2Ds2VA_calculate_unset(self) == self

Cha2Ds2VA_calculate(self) ==
    LET tally0 == Cha2Ds2VA_age_tally(self.age)
        tally1 == U8(tally0
                     + U8(CountTrue(<<self.htn, self.chf, self.vasc, self.diabetes>>)))
        tally2 == IF self.stroke THEN U8(tally1 + 2) ELSE tally1
    IN  [self EXCEPT !.score = Some(tally2)]

Cha2Ds2VA_score(self) == self.score

(* Whether the table lookup of the two risk accessors panics. *)
Cha2Ds2VA_risk_panics(self) ==
    /\ Cha2Ds2VA_score(self) # None
    /\ ~InBounds(CHADS_VA_STROKE_RISK_PCT_ANNUAL, Cha2Ds2VA_score(self)[1])

Cha2Ds2VA_annual_cva_risk_no_oac(self) ==
    IF Cha2Ds2VA_score(self) # None
    THEN Some(Index(CHADS_VA_STROKE_RISK_PCT_ANNUAL, Cha2Ds2VA_score(self)[1])[1])
    ELSE None

Cha2Ds2VA_annual_cva_risk_with_oac(self) ==
    IF Cha2Ds2VA_score(self) # None
    THEN Some(Index(CHADS_VA_STROKE_RISK_PCT_ANNUAL, Cha2Ds2VA_score(self)[1])[2])
    ELSE None

----------------------------------------------------------------------------
(* calculators/cha2ds2_vasc.rs *)

(* The literals of the table, in tenths (0.2 is 2). *)
ANNUAL_CVA_RISK_TENTHS == <<2, 6, 22, 32, 48, 72, 97, 112, 108, 122>>

(* [f64; 10], indexed from 0. *)
ANNUAL_CVA_RISK_TABLE ==
    [i \in 0..(Len(ANNUAL_CVA_RISK_TENTHS) - 1) |-> Lit(ANNUAL_CVA_RISK_TENTHS[i + 1], 10)]

ChadsVasc_new(age, sex) ==
    [age |-> age, sex |-> sex, chf |-> FALSE, diabetes |-> FALSE, htn |-> FALSE,
     stroke |-> FALSE, vasc |-> FALSE, score |-> None]

ChadsVasc_has_chf(self) == [self EXCEPT !.chf = TRUE]

(* has_diabetes, had it marked hypertension as well. *)
ChadsVasc_has_diabetes_and_htn(self) == [self EXCEPT !.diabetes = TRUE, !.htn = TRUE]

ChadsVasc_has_diabetes(self) == [self EXCEPT !.diabetes = TRUE]

ChadsVasc_has_htn(self) == [self EXCEPT !.htn = TRUE]

ChadsVasc_has_stroke_hx(self) == [self EXCEPT !.stroke = TRUE]

ChadsVasc_has_vascular_hx(self) == [self EXCEPT !.vasc = TRUE]

(* The age points, had the arm for 75 and over been left out. *)
ChadsVasc_age_tally_65only(age) ==
    IF F64Ge(age, F64FromInt(65)) THEN 1 ELSE 0

ChadsVasc_age_tally(age) ==
    IF F64Ge(age, F64FromInt(75)) THEN 2
    ELSE IF F64Ge(age, F64FromInt(65)) THEN 1
    ELSE 0

(* calculate, had it scored a prior stroke 3 instead of 2. *)
ChadsVasc_calculate_stroke3(self) ==
    LET tally0 == ChadsVasc_age_tally(self.age)
        tally1 == U8(tally0 + (IF self.sex = "Female" THEN 1 ELSE 0))
        tally2 == U8(tally1
                     + U8(CountTrue(<<self.chf, self.diabetes, self.htn, self.vasc>>)))
        tally3 == U8(tally2 + (IF self.stroke THEN 3 ELSE 0))
    IN  [self EXCEPT !.score = Some(tally3)]

ChadsVasc_calculate(self) ==
    LET tally0 == ChadsVasc_age_tally(self.age)
        tally1 == U8(tally0 + (IF self.sex = "Female" THEN 1 ELSE 0))
        tally2 == U8(tally1
                     + U8(CountTrue(<<self.chf, self.diabetes, self.htn, self.vasc>>)))
        tally3 == U8(tally2 + (IF self.stroke THEN 2 ELSE 0))
    IN  [self EXCEPT !.score = Some(tally3)]

ChadsVasc_score(self) == self.score

(* Whether the table lookup of the risk accessor panics. *)
ChadsVasc_risk_panics(self) ==
    self.score # None /\ ~InBounds(ANNUAL_CVA_RISK_TABLE, self.score[1])

ChadsVasc_annual_stroke_risk_pct(self) ==
    IF self.score # None
    THEN Some(Index(ANNUAL_CVA_RISK_TABLE, self.score[1]))
    ELSE None

----------------------------------------------------------------------------
(* The score builders as a state machine: construction, then any sequence  *)
(* of setters, calculate and accessors.  The builder methods take self by  *)
(* value and return it: the returned builder is the next state.            *)

NaIdle == na_in = NoQuantity /\ glu_in = NoQuantity /\ na_out = NoQuantity

RangeIdle == range_in = NoQuantity /\ range_out = NoResult

NoLits == lits = NoQuantity

ConvIdle == conv = NoQuantity

CalcIdle == calc = NoQuantity

BuilderIdle ==
    /\ va = NoBuilder
    /\ vasc = NoBuilder
    /\ call = [op |-> "none", ret |-> None, panicked |-> FALSE]
    /\ calc_done = FALSE

Returned(op, ret, panicked) == [op |-> op, ret |-> ret, panicked |-> panicked]

Init ==
    /\ \/ \E age \in Years :
            va = Cha2Ds2VA_new(age) /\ vasc = NoBuilder
       \/ \E age \in Years, sex \in Gender :
            vasc = ChadsVasc_new(age, sex) /\ va = NoBuilder
    /\ call = Returned("new", None, FALSE)
    /\ calc_done = FALSE
    /\ NaIdle
    /\ RangeIdle
    /\ NoLits
    /\ ConvIdle
    /\ CalcIdle

NotBuilder == <<na_in, glu_in, na_out, range_in, range_out, lits, conv, calc>>

(* A method of Cha2Ds2VA that returns the builder. *)
VaStep(op, next) ==
    /\ va # NoBuilder
    /\ va' = next
    /\ call' = Returned(op, None, FALSE)
    /\ UNCHANGED <<vasc, NotBuilder>>

VaHasChf == VaStep("has_chf", Cha2Ds2VA_has_chf(va)) /\ UNCHANGED calc_done

VaHasDiabetes == VaStep("has_diabetes", Cha2Ds2VA_has_diabetes(va)) /\ UNCHANGED calc_done

VaHasHtn == VaStep("has_htn", Cha2Ds2VA_has_htn(va)) /\ UNCHANGED calc_done

VaHasStrokeHx == VaStep("has_stroke_hx", Cha2Ds2VA_has_stroke_hx(va)) /\ UNCHANGED calc_done

VaHasVascularHx ==
    VaStep("has_vascular_hx", Cha2Ds2VA_has_vascular_hx(va)) /\ UNCHANGED calc_done

VaCalculate == VaStep("calculate", Cha2Ds2VA_calculate(va)) /\ calc_done' = TRUE

(* An accessor (&self): the builder is left as it is. *)
VaRead(op, ret, panics) ==
    /\ va # NoBuilder
    /\ call' = Returned(op, IF panics THEN None ELSE ret, panics)
    /\ UNCHANGED <<va, vasc, calc_done, NotBuilder>>

VaScore == VaRead("score", Cha2Ds2VA_score(va), FALSE)

VaAnnualCvaRiskNoOac ==
    VaRead("annual_cva_risk_no_oac", Cha2Ds2VA_annual_cva_risk_no_oac(va),
           Cha2Ds2VA_risk_panics(va))

VaAnnualCvaRiskWithOac ==
    VaRead("annual_cva_risk_with_oac", Cha2Ds2VA_annual_cva_risk_with_oac(va),
           Cha2Ds2VA_risk_panics(va))

(* A method of ChadsVasc that returns the builder. *)
VascStep(op, next) ==
    /\ vasc # NoBuilder
    /\ vasc' = next
    /\ call' = Returned(op, None, FALSE)
    /\ UNCHANGED <<va, NotBuilder>>

VascHasChf == VascStep("has_chf", ChadsVasc_has_chf(vasc)) /\ UNCHANGED calc_done

VascHasDiabetes ==
    VascStep("has_diabetes", ChadsVasc_has_diabetes(vasc)) /\ UNCHANGED calc_done

VascHasHtn == VascStep("has_htn", ChadsVasc_has_htn(vasc)) /\ UNCHANGED calc_done

VascHasStrokeHx ==
    VascStep("has_stroke_hx", ChadsVasc_has_stroke_hx(vasc)) /\ UNCHANGED calc_done

VascHasVascularHx ==
    VascStep("has_vascular_hx", ChadsVasc_has_vascular_hx(vasc)) /\ UNCHANGED calc_done

VascCalculate == VascStep("calculate", ChadsVasc_calculate(vasc)) /\ calc_done' = TRUE

VascRead(op, ret, panics) ==
    /\ vasc # NoBuilder
    /\ call' = Returned(op, IF panics THEN None ELSE ret, panics)
    /\ UNCHANGED <<va, vasc, calc_done, NotBuilder>>

VascScore == VascRead("score", ChadsVasc_score(vasc), FALSE)

VascAnnualStrokeRiskPct ==
    VascRead("annual_stroke_risk_pct", ChadsVasc_annual_stroke_risk_pct(vasc),
             ChadsVasc_risk_panics(vasc))

Next ==
    \/ VaHasChf
    \/ VaHasDiabetes
    \/ VaHasHtn
    \/ VaHasStrokeHx
    \/ VaHasVascularHx
    \/ VaCalculate
    \/ VaScore
    \/ VaAnnualCvaRiskNoOac
    \/ VaAnnualCvaRiskWithOac
    \/ VascHasChf
    \/ VascHasDiabetes
    \/ VascHasHtn
    \/ VascHasStrokeHx
    \/ VascHasVascularHx
    \/ VascCalculate
    \/ VascScore
    \/ VascAnnualStrokeRiskPct

Spec == Init /\ [][Next]_vars

----------------------------------------------------------------------------
(* Properties of the score builders, checked under Spec.                   *)

(* The builder under construction. *)
Builder == IF va # NoBuilder THEN va ELSE vasc

Score == Builder.score

Flags == <<Builder.chf, Builder.diabetes, Builder.htn, Builder.stroke, Builder.vasc>>

SetterOps == {"has_chf", "has_diabetes", "has_htn", "has_stroke_hx", "has_vascular_hx"}

AccessorOps == {"score", "annual_cva_risk_no_oac", "annual_cva_risk_with_oac",
                "annual_stroke_risk_pct"}

Bit(b) == IF b THEN 1 ELSE 0

(* The age of a builder as the decimal literal it was constructed from. *)
AgeTenths(b) == CHOOSE t \in YearsTenths : Lit(t, 10) = b.age

(* The age points as the claims state them, on the decimal age. *)
AgePoints(b) ==
    IF AgeTenths(b) >= 750 THEN 2 ELSE IF AgeTenths(b) >= 650 THEN 1 ELSE 0

(* C1: for both builders, as long as calculate() has not been applied,     *)
(* score() and every risk accessor return None; once it has been applied   *)
(* each of them returns a present value; and no call ever panics.          *)
C1_AccessorsAbsentUntilCalculated ==
    /\ call.panicked = FALSE
    /\ call.op \in AccessorOps => (call.ret = None <=> ~calc_done)
    /\ va # NoBuilder =>
          /\ ~Cha2Ds2VA_risk_panics(va)
          /\ Cha2Ds2VA_score(va) = None <=> ~calc_done
          /\ Cha2Ds2VA_annual_cva_risk_no_oac(va) = None <=> ~calc_done
          /\ Cha2Ds2VA_annual_cva_risk_with_oac(va) = None <=> ~calc_done
    /\ vasc # NoBuilder =>
          /\ ~ChadsVasc_risk_panics(vasc)
          /\ ChadsVasc_score(vasc) = None <=> ~calc_done
          /\ ChadsVasc_annual_stroke_risk_pct(vasc) = None <=> ~calc_done

(* A risk accessor has returned a present value on a calculated builder    *)
(* with a prior stroke.                                                    *)
C1_Witness ==
    /\ calc_done
    /\ call.op = "annual_cva_risk_with_oac"
    /\ call.ret # None
    /\ va # NoBuilder /\ va.stroke

(* C2: ChadsVasc::calculate stores exactly the tally: 2 for age >= 75,     *)
(* else 1 for age >= 65, plus 1 for Female, plus 1 for each of             *)
(* hypertension, heart failure, vascular disease and diabetes, plus 2 for  *)
(* a prior stroke.  Age 64.9, female, no flags gives 1; age 75, female,    *)
(* all five flags gives 9.                                                 *)
C2_VascTally ==
    (vasc # NoBuilder /\ call.op = "calculate") =>
        /\ vasc.score = Some(AgePoints(vasc) + Bit(vasc.sex = "Female")
                             + Bit(vasc.htn) + Bit(vasc.chf) + Bit(vasc.vasc)
                             + Bit(vasc.diabetes) + 2 * Bit(vasc.stroke))
        /\ (AgeTenths(vasc) = 649 /\ vasc.sex = "Female"
               /\ Flags = <<FALSE, FALSE, FALSE, FALSE, FALSE>>)
              => vasc.score = Some(1)
        /\ (AgeTenths(vasc) = 750 /\ vasc.sex = "Female"
               /\ Flags = <<TRUE, TRUE, TRUE, TRUE, TRUE>>)
              => vasc.score = Some(9)

(* calculate() has scored a woman of 75 with all five flags. *)
C2_Witness ==
    /\ vasc # NoBuilder
    /\ call.op = "calculate"
    /\ vasc.sex = "Female"
    /\ Flags = <<TRUE, TRUE, TRUE, TRUE, TRUE>>
    /\ vasc.age = F64FromInt(75)

(* C3: Cha2Ds2VA::calculate stores exactly the tally: 2 for age >= 75,     *)
(* else 1 for age >= 65, plus 1 for each of hypertension, heart failure,   *)
(* vascular disease and diabetes, plus 2 for a prior stroke, and nothing   *)
(* for sex.  Age exactly 65 scores 1, age exactly 75 scores 2, and the     *)
(* maximal history scores 8.                                               *)
C3_VaTally ==
    (va # NoBuilder /\ call.op = "calculate") =>
        /\ va.score = Some(AgePoints(va) + Bit(va.htn) + Bit(va.chf) + Bit(va.vasc)
                           + Bit(va.diabetes) + 2 * Bit(va.stroke))
        /\ (AgeTenths(va) = 650 /\ Flags = <<FALSE, FALSE, FALSE, FALSE, FALSE>>)
              => va.score = Some(1)
        /\ (AgeTenths(va) = 750 /\ Flags = <<FALSE, FALSE, FALSE, FALSE, FALSE>>)
              => va.score = Some(2)
        /\ (AgeTenths(va) >= 750 /\ Flags = <<TRUE, TRUE, TRUE, TRUE, TRUE>>)
              => va.score = Some(8)
        /\ va.score[1] <= 8

(* calculate() has scored a patient of exactly 65 with no flags. *)
C3_Witness ==
    /\ va # NoBuilder
    /\ call.op = "calculate"
    /\ va.age = F64FromInt(65)
    /\ Flags = <<FALSE, FALSE, FALSE, FALSE, FALSE>>

(* C4: whenever the score is present it lies in 0..8 for Cha2Ds2VA and in   *)
(* 0..9 for ChadsVasc, the tables have 9 and 10 entries, and so every risk *)
(* lookup indexes inside its table.                                        *)
C4_ScoreIndexesInsideTable ==
    /\ Cardinality(DOMAIN CHADS_VA_STROKE_RISK_PCT_ANNUAL) = 9
    /\ Cardinality(DOMAIN ANNUAL_CVA_RISK_TABLE) = 10
    /\ (va # NoBuilder /\ va.score # None) =>
          /\ va.score[1] \in 0..8
          /\ InBounds(CHADS_VA_STROKE_RISK_PCT_ANNUAL, va.score[1])
    /\ (vasc # NoBuilder /\ vasc.score # None) =>
          /\ vasc.score[1] \in 0..9
          /\ InBounds(ANNUAL_CVA_RISK_TABLE, vasc.score[1])
    /\ call.panicked = FALSE

(* The risk lookup has been made at the last entry of the VASc table. *)
C4_Witness ==
    /\ vasc # NoBuilder
    /\ vasc.score = Some(9)
    /\ call.op = "annual_stroke_risk_pct"
    /\ call.ret = Some(Lit(122, 10))

(* C5: a builder starts with the score absent, only calculate() makes it   *)
(* present, and once present no later operation makes it absent again.     *)
C5_LifecycleOneWay ==
    /\ call.op = "new" => Score = None
    /\ [][/\ Score # None => Score' # None
          /\ (Score = None /\ Score' # None) => call'.op = "calculate"]_vars

(* A setter has been applied to a calculated builder, and the score is     *)
(* still present.                                                          *)
C5_Witness ==
    /\ calc_done
    /\ call.op \in SetterOps
    /\ Score # None

(* C6: once a builder is calculated its flags are frozen: no setter and no *)
(* calculate() changes the value of any flag.                              *)
C6_FlagsFrozenOnceCalculated ==
    [][calc_done => Flags' = Flags]_vars

----------------------------------------------------------------------------
(* constants.rs *)

(* 18.0 *)
GLU_MMOLL_TO_MGDL == F64FromInt(18)

GLU_MGDL_TO_MMOLL == F64Recip(GLU_MMOLL_TO_MGDL)

----------------------------------------------------------------------------
(* units.rs, units/sodium.rs, units/glucose.rs: the unit tags and their    *)
(* conversions to and from mmol/L.                                         *)

SodiumUnit == {"MeqL", "MmolL"}

GlucoseUnit == {"MgdL", "MmolL"}

SodiumUnit_to_mmol_l(N, val) ==
    CASE N = "MeqL" -> val
      [] N = "MmolL" -> val

SodiumUnit_from_mmol_l(N, val) ==
    CASE N = "MeqL" -> val
      [] N = "MmolL" -> val

(* MgdL::to_mmol_l, had it used the factor of the opposite direction. *)
GlucoseUnit_to_mmol_l_wrong_factor(G, val) ==
    CASE G = "MgdL" -> F64Mul(val, GLU_MMOLL_TO_MGDL)
      [] G = "MmolL" -> val

GlucoseUnit_to_mmol_l(G, val) ==
    CASE G = "MgdL" -> F64Mul(val, GLU_MGDL_TO_MMOLL)
      [] G = "MmolL" -> val

GlucoseUnit_from_mmol_l(G, val) ==
    CASE G = "MgdL" -> F64Mul(val, GLU_MMOLL_TO_MGDL)
      [] G = "MmolL" -> val

----------------------------------------------------------------------------
(* lab/blood/sodium.rs, lab/blood/glucose.rs: a quantity is an f64 value   *)
(* with the unit tag of its type.                                          *)

Sodium_from(N, value) == [value |-> value, unit |-> N]

Glucose_from(G, value) == [value |-> value, unit |-> G]

----------------------------------------------------------------------------
(* calculators.rs *)

katz(na, glu) == F64Add(na, F64Mul(Lit(29, 100), F64Sub(glu, Lit(56, 10))))

(* hillier, had its coefficient been smaller than that of katz. *)
hillier_weaker(na, glu) == F64Add(na, F64Mul(Lit(23, 100), F64Sub(glu, Lit(56, 10))))

hillier(na, glu) == F64Add(na, F64Mul(Lit(43, 100), F64Sub(glu, Lit(56, 10))))

(* correct_na_for_glucose, had the threshold comparison been <=. *)
correct_na_for_glucose_le(sodium, glucose) ==
    LET na_mmol == SodiumUnit_to_mmol_l(sodium.unit, sodium.value)
        glu_mmol == GlucoseUnit_to_mmol_l(glucose.unit, glucose.value)
        corrected_na == IF F64Le(glu_mmol, Lit(222, 10))
                        THEN katz(na_mmol, glu_mmol)
                        ELSE hillier(na_mmol, glu_mmol)
    IN  Sodium_from(sodium.unit, SodiumUnit_from_mmol_l(sodium.unit, corrected_na))

correct_na_for_glucose(sodium, glucose) ==
    LET na_mmol == SodiumUnit_to_mmol_l(sodium.unit, sodium.value)
        glu_mmol == GlucoseUnit_to_mmol_l(glucose.unit, glucose.value)
        corrected_na == IF F64Lt(glu_mmol, Lit(222, 10))
                        THEN katz(na_mmol, glu_mmol)
                        ELSE hillier(na_mmol, glu_mmol)
    IN  Sodium_from(sodium.unit, SodiumUnit_from_mmol_l(sodium.unit, corrected_na))

----------------------------------------------------------------------------
(* One call of correct_na_for_glucose: the arguments are built from the    *)
(* literals the caller writes, then the call is made.                      *)

(* How far around the two cut-overs (22.2 mmol/L, 400 mg/dL) the glucose   *)
(* literals go, in tenths.                                                 *)
GluSpan == 6

(* Glucose levels in tenths of a mmol/L: the baseline 5.6, levels on both  *)
(* sides of it and of the cut-over, and every tenth around 22.2.           *)
GluLevels == {0, 54, 56, 100, 150, 268, 300} \cup ((222 - GluSpan)..(222 + GluSpan))

(* The glucose literals: each level in mmol/L and as the equal decimal in  *)
(* mg/dL (18 times the level), 22.19 and 22.21 mmol/L, every tenth of a    *)
(* mg/dL around 400, and 500 mg/dL.                                        *)
GlucoseLits ==
    {[num |-> n, den |-> 10, unit |-> "MmolL"] : n \in GluLevels}
    \cup {[num |-> 18 * n, den |-> 10, unit |-> "MgdL"] : n \in GluLevels}
    \cup {[num |-> n, den |-> 100, unit |-> "MmolL"] : n \in {2219, 2221}}
    \cup {[num |-> n, den |-> 10, unit |-> "MgdL"] :
            n \in ((4000 - GluSpan)..(4000 + GluSpan)) \cup {5000}}

(* The sodium literals. *)
SodiumLits ==
    {[num |-> n, den |-> 1, unit |-> N] : n \in {126, 130, 138}, N \in SodiumUnit}

InitNa ==
    /\ BuilderIdle
    /\ RangeIdle
    /\ ConvIdle
    /\ CalcIdle
    /\ \E n \in SodiumLits, g \in GlucoseLits :
          /\ na_in = Sodium_from(n.unit, Lit(n.num, n.den))
          /\ glu_in = Glucose_from(g.unit, Lit(g.num, g.den))
          /\ lits = [na |-> <<n.num, n.den>>, glu |-> <<g.num, g.den>>]
    /\ na_out = NoQuantity

CorrectNa ==
    /\ na_in # NoQuantity
    /\ na_out = NoQuantity
    /\ na_out' = correct_na_for_glucose(na_in, glu_in)
    /\ UNCHANGED <<va, vasc, call, calc_done, na_in, glu_in, range_in, range_out, lits,
                   conv, calc>>

NextNa == CorrectNa

SpecNa == InitNa /\ [][NextNa]_vars

----------------------------------------------------------------------------
(* Properties of correct_na_for_glucose, checked under SpecNa.             *)

(* num/den < a/b, on the decimal literals *)
LitLt(l, a, b) == l[1] * b < a * l[2]

LitLe(l, a, b) == l[1] * b <= a * l[2]

C9_CutOverAt400MgdL ==
    (na_out # NoQuantity /\ glu_in.unit = "MgdL") =>
        na_out.value =
            IF LitLe(lits.glu, 400, 1)
            THEN katz(na_in.value, F64Mul(glu_in.value, GLU_MGDL_TO_MMOLL))
            ELSE hillier(na_in.value, F64Mul(glu_in.value, GLU_MGDL_TO_MMOLL))

(* The same glucose level written in the other unit, where that is a       *)
(* decimal with the same number of places: 18 times the mmol/L literal,    *)
(* or an 18th of the mg/dL literal.                                        *)
HasCounterpart ==
    glu_in.unit = "MmolL" \/ lits.glu[1] % 18 = 0

Counterpart ==
    IF glu_in.unit = "MmolL"
    THEN Glucose_from("MgdL", Lit(18 * lits.glu[1], lits.glu[2]))
    ELSE Glucose_from("MmolL", Lit(lits.glu[1] \div 18, lits.glu[2]))

(* The same sodium value tagged with the other sodium unit. *)
OtherSodium ==
    Sodium_from(IF na_in.unit = "MeqL" THEN "MmolL" ELSE "MeqL", na_in.value)

(* C10 as stated: the result carries the sodium unit of the input, and is  *)
(* identical whether the glucose is given in mg/dL or in mmol/L and        *)
(* whether the sodium is tagged mEq/L or mmol/L.                           *)
C10_UnitInvariantIdentical ==
    na_out # NoQuantity =>
        /\ na_out.unit = na_in.unit
        /\ correct_na_for_glucose(OtherSodium, glu_in).value = na_out.value
        /\ HasCounterpart =>
              correct_na_for_glucose(na_in, Counterpart).value = na_out.value

(* C10, amended: the result carries the sodium unit of the input, is       *)
(* identical whether the sodium is tagged mEq/L or mmol/L, and differs by  *)
(* at most 1e-9 between a glucose given in mmol/L and the same level given *)
(* in mg/dL.                                                               *)
C10_UnitInvariantWithin1e9 ==
    na_out # NoQuantity =>
        /\ na_out.unit = na_in.unit
        /\ correct_na_for_glucose(OtherSodium, glu_in).value = na_out.value
        /\ HasCounterpart =>
              F64Le(F64Abs(F64Sub(correct_na_for_glucose(na_in, Counterpart).value,
                                  na_out.value)),
                    Lit(1, 1000000000))

(* The call has been made with a glucose in mg/dL for which the same level *)
(* in mmol/L gives a result that is close but not the same.                *)
C10_Witness ==
    /\ na_out # NoQuantity
    /\ glu_in.unit = "MgdL"
    /\ HasCounterpart
    /\ correct_na_for_glucose(na_in, Counterpart).value # na_out.value

----------------------------------------------------------------------------
(* constants.rs *)

(* 88.4 *)
SCR_MGDL_TO_UMOLL == Lit(884, 10)

(* 17.1 *)
SBILI_MGDL_TO_UMOLL == Lit(171, 10)

----------------------------------------------------------------------------
(* lab.rs *)

ResultRange == {"CriticalLow", "Low", "Normal", "High", "CriticalHigh"}

RangeThreshold(crit_low, low_norm, norm_hi, hi_crit) ==
    [crit_low |-> crit_low, low_norm |-> low_norm, norm_hi |-> norm_hi,
     hi_crit |-> hi_crit]

(* select_range, had its comparisons been strict. *)
select_range_strict(value, thresholds) ==
    CHOOSE r \in
        {IF F64Lt(v, t.crit_low) THEN "CriticalLow"
         ELSE IF F64Lt(v, t.low_norm) THEN "Low"
         ELSE IF F64Lt(v, t.norm_hi) THEN "Normal"
         ELSE IF F64Lt(v, t.hi_crit) THEN "High"
         ELSE "CriticalHigh" :
         v \in {value}, t \in {thresholds}} : TRUE

select_range(value, thresholds) ==
    CHOOSE r \in
        {IF F64Le(v, t.crit_low) THEN "CriticalLow"
         ELSE IF F64Le(v, t.low_norm) THEN "Low"
         ELSE IF F64Le(v, t.norm_hi) THEN "Normal"
         ELSE IF F64Le(v, t.hi_crit) THEN "High"
         ELSE "CriticalHigh" :
         v \in {value}, t \in {thresholds}} : TRUE

----------------------------------------------------------------------------
(* lab/blood/bilirubin.rs *)

SERUM_BILI_RANGES_MGDL ==
    RangeThreshold(Lit(2, 10), Lit(5, 10), Lit(25, 10), F64FromInt(10))

SERUM_BILI_RANGES_UMOLL ==
    CHOOSE r \in
        {RangeThreshold(F64Mul(t.crit_low, f), F64Mul(t.low_norm, f),
                        F64Mul(t.norm_hi, f), F64Mul(t.hi_crit, f)) :
         t \in {SERUM_BILI_RANGES_MGDL}, f \in {SBILI_MGDL_TO_UMOLL}} : TRUE

(* f64::serum_bili_mgdl, f64::serum_bili_umoll *)
Bilirubin_from(U, value) == [value |-> value, unit |-> U]

(* NumericRanged::range for Bilirubin<UmolL> and Bilirubin<MgdL> *)
Bilirubin_range(self) ==
    CASE self.unit = "UmolL" -> select_range(self.value, SERUM_BILI_RANGES_UMOLL)
      [] self.unit = "MgdL" -> select_range(self.value, SERUM_BILI_RANGES_MGDL)

----------------------------------------------------------------------------
(* lab/blood/creatinine.rs *)

SCR_THRESHOLDS_MG_DL ==
    RangeThreshold(Lit(6, 10), Lit(9, 10), Lit(14, 10), F64FromInt(3))

SCR_THRESHOLDS_UMOL_L ==
    CHOOSE r \in
        {RangeThreshold(F64Mul(t.crit_low, f), F64Mul(t.low_norm, f),
                        F64Mul(t.norm_hi, f), F64Mul(t.hi_crit, f)) :
         t \in {SCR_THRESHOLDS_MG_DL}, f \in {SCR_MGDL_TO_UMOLL}} : TRUE

(* From<f64> for Creatinine<MgdL> and Creatinine<UmolL> *)
Creatinine_from(U, value) == [value |-> value, unit |-> U]

(* Creatinine::range, had both units read the mg/dL table. *)
Creatinine_range_unit_ignored(self) ==
    CASE self.unit = "MgdL" -> select_range(self.value, SCR_THRESHOLDS_MG_DL)
      [] self.unit = "UmolL" -> select_range(self.value, SCR_THRESHOLDS_MG_DL)

(* NumericRanged::range for Creatinine<MgdL> and Creatinine<UmolL> *)
Creatinine_range(self) ==
    CASE self.unit = "MgdL" -> select_range(self.value, SCR_THRESHOLDS_MG_DL)
      [] self.unit = "UmolL" -> select_range(self.value, SCR_THRESHOLDS_UMOL_L)

----------------------------------------------------------------------------
(* One range classification: a call of select_range with a table of the    *)
(* caller, or of range() on a bilirubin or a creatinine.  The arguments    *)
(* are built from the literals the caller writes, then the call is made.   *)

(* The cut points of the caller's tables are the integers 0..MaxCut. *)
MaxCut == 3

(* The ascending tables over 0..MaxCut, as <<crit_low, low_norm, norm_hi,  *)
(* hi_crit>>.                                                              *)
AscendingCuts ==
    {c \in (0..MaxCut) \X (0..MaxCut) \X (0..MaxCut) \X (0..MaxCut) :
        c[1] <= c[2] /\ c[2] <= c[3] /\ c[3] <= c[4]}

(* The values classified against them: every half from -1/2 to             *)
(* MaxCut + 1/2, as numerators over 2.                                     *)
Halves == (-1)..(2 * MaxCut + 1)

(* The cut points of the tables of a Kind, as exact decimals: the mg/dL    *)
(* literals, and for umol/L their products with the conversion factor      *)
(* (17.1 for bilirubin, 88.4 for creatinine).                              *)
KindCuts(kind, unit) ==
    CASE kind = "Bilirubin" /\ unit = "MgdL" ->
            << <<2, 10>>, <<5, 10>>, <<25, 10>>, <<100, 10>> >>
      [] kind = "Bilirubin" /\ unit = "UmolL" ->
            << <<342, 100>>, <<855, 100>>, <<4275, 100>>, <<17100, 100>> >>
      [] kind = "Creatinine" /\ unit = "MgdL" ->
            << <<6, 10>>, <<9, 10>>, <<14, 10>>, <<30, 10>> >>
      [] kind = "Creatinine" /\ unit = "UmolL" ->
            << <<5304, 100>>, <<7956, 100>>, <<12376, 100>>, <<26520, 100>> >>

(* The values classified for a Kind: each cut point and the decimals one   *)
(* step below and above it.                                                *)
KindLits(kind, unit) ==
    {<<KindCuts(kind, unit)[i][1] + d, KindCuts(kind, unit)[i][2]>> :
        i \in 1..4, d \in {-1, 0, 1}}

InitRange ==
    /\ BuilderIdle
    /\ NaIdle
    /\ ConvIdle
    /\ CalcIdle
    /\ range_out = NoResult
    /\ \/ \E c \in AscendingCuts, n \in Halves :
            /\ range_in = [kind |-> "select_range", value |-> Lit(n, 2),
                           thresholds |-> RangeThreshold(F64FromInt(c[1]), F64FromInt(c[2]),
                                                         F64FromInt(c[3]), F64FromInt(c[4]))]
            /\ lits = [value |-> <<n, 2>>,
                       cuts |-> << <<c[1], 1>>, <<c[2], 1>>, <<c[3], 1>>, <<c[4], 1>> >>]
       \/ \E kind \in {"Bilirubin", "Creatinine"}, unit \in {"MgdL", "UmolL"} :
            \E v \in KindLits(kind, unit) :
                /\ range_in = [kind |-> kind,
                               quantity |-> IF kind = "Bilirubin"
                                            THEN Bilirubin_from(unit, Lit(v[1], v[2]))
                                            ELSE Creatinine_from(unit, Lit(v[1], v[2]))]
                /\ lits = [value |-> v, cuts |-> KindCuts(kind, unit)]

NotRange == <<va, vasc, call, calc_done, na_in, glu_in, na_out, range_in, lits, conv, calc>>

SelectRange ==
    /\ range_in # NoQuantity
    /\ range_in.kind = "select_range"
    /\ range_out = NoResult
    /\ range_out' = select_range(range_in.value, range_in.thresholds)
    /\ UNCHANGED NotRange

BilirubinRange ==
    /\ range_in # NoQuantity
    /\ range_in.kind = "Bilirubin"
    /\ range_out = NoResult
    /\ range_out' = Bilirubin_range(range_in.quantity)
    /\ UNCHANGED NotRange

CreatinineRange ==
    /\ range_in # NoQuantity
    /\ range_in.kind = "Creatinine"
    /\ range_out = NoResult
    /\ range_out' = Creatinine_range(range_in.quantity)
    /\ UNCHANGED NotRange

NextRange ==
    \/ SelectRange
    \/ BilirubinRange
    \/ CreatinineRange

SpecRange == InitRange /\ [][NextRange]_vars

----------------------------------------------------------------------------
(* Properties of the range classification, checked under SpecRange.        *)

(* value <= cut, on the decimal literals *)
LeCut(v, cut) == v[1] * cut[2] <= cut[1] * v[2]

(* The category the inclusive-lower policy gives a value, on the decimal   *)
(* literals.                                                               *)
InclusiveLower(v, cuts) ==
    IF LeCut(v, cuts[1]) THEN "CriticalLow"
    ELSE IF LeCut(v, cuts[2]) THEN "Low"
    ELSE IF LeCut(v, cuts[3]) THEN "Normal"
    ELSE IF LeCut(v, cuts[4]) THEN "High"
    ELSE "CriticalHigh"

(* v = cut, on the decimal literals *)
AtCut(v, cut) == v[1] * cut[2] = cut[1] * v[2]

(* C7: for every value and every ascending table, select_range gives       *)
(* CriticalLow up to and including crit_low, Low above that up to and      *)
(* including low_norm, Normal up to and including norm_hi, High up to and  *)
(* including hi_crit, and CriticalHigh above; a value equal to low_norm is *)
(* Low and not Normal; the same holds of range() on a bilirubin and on a   *)
(* creatinine.                                                             *)
C7_InclusiveLowerPolicy ==
    range_out # NoResult =>
        /\ range_out = InclusiveLower(lits.value, lits.cuts)
        /\ AtCut(lits.value, lits.cuts[2]) =>
              /\ range_out # "Normal"
              /\ ~AtCut(lits.cuts[1], lits.cuts[2]) => range_out = "Low"

(* range() has classified a bilirubin of exactly low_norm (0.5 mg/dL) as   *)
(* Low.                                                                    *)
C7_Witness ==
    /\ range_out = "Low"
    /\ range_in.kind = "Bilirubin"
    /\ range_in.quantity.unit = "MgdL"
    /\ AtCut(lits.value, lits.cuts[2])

----------------------------------------------------------------------------
(* constants.rs: the remaining conversion factors *)

SCR_UMOLL_TO_MGDL == F64Recip(SCR_MGDL_TO_UMOLL)

(* 0.45359237 *)
LB_TO_KG == Lit(45359237, 100000000)

KG_TO_LB == F64Recip(LB_TO_KG)

(* 0.3048 *)
FT_TO_M == Lit(3048, 10000)

M_TO_FT == F64Recip(FT_TO_M)

SBILI_UMOLL_TO_MGDL == F64Recip(SBILI_MGDL_TO_UMOLL)

----------------------------------------------------------------------------
(* units/bilirubin.rs, units/creatinine.rs, units/vitals.rs: the unit tags *)
(* of the other kinds and their conversions to and from the kind's         *)
(* canonical unit.                                                         *)

BilirubinUnit == {"MgdL", "UmolL"}

CreatinineUnit == {"MgdL", "UmolL"}

WeightUnit == {"Kg", "Lb"}

HeightUnit == {"Meter", "Foot"}

BilirubinUnit_to_umoll(B, value) ==
    CASE B = "MgdL" -> F64Mul(value, SBILI_MGDL_TO_UMOLL)
      [] B = "UmolL" -> value

BilirubinUnit_from_umoll(B, value) ==
    CASE B = "MgdL" -> F64Mul(value, SBILI_UMOLL_TO_MGDL)
      [] B = "UmolL" -> value

CreatinineUnit_to_umol_l(C, value) ==
    CASE C = "MgdL" -> F64Mul(value, SCR_MGDL_TO_UMOLL)
      [] C = "UmolL" -> value

CreatinineUnit_from_umol_l(C, value) ==
    CASE C = "MgdL" -> F64Div(value, SCR_MGDL_TO_UMOLL)
      [] C = "UmolL" -> value

WeightUnit_to_kg(W, val) ==
    CASE W = "Kg" -> val
      [] W = "Lb" -> F64Mul(val, LB_TO_KG)

(* WeightUnit::from_kg, had kilograms been scaled as pounds are. *)
WeightUnit_from_kg_scales_kg(W, val) ==
    CASE W = "Kg" -> F64Mul(val, KG_TO_LB)
      [] W = "Lb" -> F64Mul(val, KG_TO_LB)

WeightUnit_from_kg(W, val) ==
    CASE W = "Kg" -> val
      [] W = "Lb" -> F64Mul(val, KG_TO_LB)

HeightUnit_to_m(H, val) ==
    CASE H = "Meter" -> val
      [] H = "Foot" -> F64Mul(val, FT_TO_M)

(* HeightUnit::from_m, had feet been scaled by the forward factor. *)
HeightUnit_from_m_forward_factor(H, val) ==
    CASE H = "Meter" -> val
      [] H = "Foot" -> F64Mul(val, FT_TO_M)

HeightUnit_from_m(H, val) ==
    CASE H = "Meter" -> val
      [] H = "Foot" -> F64Mul(val, M_TO_FT)

----------------------------------------------------------------------------
(* lab/vitals.rs: weights and heights, and lab/blood/*.rs: the conversions *)
(* of a quantity into the other unit of its kind (the From impls).         *)

Weight_from(W, value) == [value |-> value, unit |-> W]

Height_from(H, value) == [value |-> value, unit |-> H]

(* From<Bilirubin<MgdL>> for Bilirubin<UmolL> and the reverse *)
Bilirubin_into(U, bili) ==
    CASE bili.unit = "MgdL" /\ U = "UmolL" ->
            [value |-> F64Mul(bili.value, SBILI_MGDL_TO_UMOLL), unit |-> U]
      [] bili.unit = "UmolL" /\ U = "MgdL" ->
            [value |-> F64Mul(bili.value, SBILI_UMOLL_TO_MGDL), unit |-> U]

(* The creatinine conversions, had umol/L to mg/dL multiplied by the       *)
(* reciprocal factor instead of dividing.                                  *)
Creatinine_into_by_reciprocal(U, scr) ==
    CASE scr.unit = "UmolL" /\ U = "MgdL" ->
            [value |-> F64Mul(scr.value, SCR_UMOLL_TO_MGDL), unit |-> U]
      [] scr.unit = "MgdL" /\ U = "UmolL" ->
            [value |-> F64Mul(scr.value, SCR_MGDL_TO_UMOLL), unit |-> U]

(* From<Creatinine<UmolL>> for Creatinine<MgdL> and the reverse *)
Creatinine_into(U, scr) ==
    CASE scr.unit = "UmolL" /\ U = "MgdL" ->
            [value |-> F64Div(scr.value, SCR_MGDL_TO_UMOLL), unit |-> U]
      [] scr.unit = "MgdL" /\ U = "UmolL" ->
            [value |-> F64Mul(scr.value, SCR_MGDL_TO_UMOLL), unit |-> U]

(* From<Glucose<MmolL>> for Glucose<MgdL> and the reverse *)
Glucose_into(U, glucose) ==
    CASE glucose.unit = "MmolL" /\ U = "MgdL" ->
            [value |-> F64Mul(glucose.value, GLU_MMOLL_TO_MGDL), unit |-> U]
      [] glucose.unit = "MgdL" /\ U = "MmolL" ->
            [value |-> F64Mul(glucose.value, GLU_MGDL_TO_MMOLL), unit |-> U]

(* From<Sodium<MmolL>> for Sodium<MeqL> and the reverse *)
Sodium_into(U, sodium) ==
    CASE sodium.unit = "MmolL" /\ U = "MeqL" -> [value |-> sodium.value, unit |-> U]
      [] sodium.unit = "MeqL" /\ U = "MmolL" -> [value |-> sodium.value, unit |-> U]

(* The weight conversions, had both directions used LB_TO_KG. *)
Weight_into_same_factor(U, weight) ==
    CASE weight.unit = "Lb" /\ U = "Kg" ->
            [value |-> F64Mul(weight.value, LB_TO_KG), unit |-> U]
      [] weight.unit = "Kg" /\ U = "Lb" ->
            [value |-> F64Mul(weight.value, LB_TO_KG), unit |-> U]

(* From<Weight<Lb>> for Weight<Kg> and the reverse *)
Weight_into(U, weight) ==
    CASE weight.unit = "Lb" /\ U = "Kg" ->
            [value |-> F64Mul(weight.value, LB_TO_KG), unit |-> U]
      [] weight.unit = "Kg" /\ U = "Lb" ->
            [value |-> F64Mul(weight.value, KG_TO_LB), unit |-> U]

(* From<Height<Foot>> for Height<Meter> and the reverse *)
Height_into(U, other) ==
    CASE other.unit = "Foot" /\ U = "Meter" ->
            [value |-> F64Mul(other.value, FT_TO_M), unit |-> U]
      [] other.unit = "Meter" /\ U = "Foot" ->
            [value |-> F64Mul(other.value, M_TO_FT), unit |-> U]

----------------------------------------------------------------------------
(* Unit conversions as a state machine: a quantity of some kind is built   *)
(* from a literal, converted into the other unit of its kind and back by   *)
(* the From impls, and the unit traits' functions are called on its value. *)

Kinds == {"Bilirubin", "Creatinine", "Glucose", "Sodium", "Weight", "Height"}

UnitsOf(kind) ==
    CASE kind = "Bilirubin" -> BilirubinUnit
      [] kind = "Creatinine" -> CreatinineUnit
      [] kind = "Glucose" -> GlucoseUnit
      [] kind = "Sodium" -> SodiumUnit
      [] kind = "Weight" -> WeightUnit
      [] kind = "Height" -> HeightUnit

(* The unit the kind's trait converts to and from. *)
CanonicalUnit(kind) ==
    CASE kind = "Bilirubin" -> "UmolL"
      [] kind = "Creatinine" -> "UmolL"
      [] kind = "Glucose" -> "MmolL"
      [] kind = "Sodium" -> "MmolL"
      [] kind = "Weight" -> "Kg"
      [] kind = "Height" -> "Meter"

to_canonical(kind, U, value) ==
    CASE kind = "Bilirubin" -> BilirubinUnit_to_umoll(U, value)
      [] kind = "Creatinine" -> CreatinineUnit_to_umol_l(U, value)
      [] kind = "Glucose" -> GlucoseUnit_to_mmol_l(U, value)
      [] kind = "Sodium" -> SodiumUnit_to_mmol_l(U, value)
      [] kind = "Weight" -> WeightUnit_to_kg(U, value)
      [] kind = "Height" -> HeightUnit_to_m(U, value)

from_canonical(kind, U, value) ==
    CASE kind = "Bilirubin" -> BilirubinUnit_from_umoll(U, value)
      [] kind = "Creatinine" -> CreatinineUnit_from_umol_l(U, value)
      [] kind = "Glucose" -> GlucoseUnit_from_mmol_l(U, value)
      [] kind = "Sodium" -> SodiumUnit_from_mmol_l(U, value)
      [] kind = "Weight" -> WeightUnit_from_kg(U, value)
      [] kind = "Height" -> HeightUnit_from_m(U, value)

Quantity_into(kind, U, q) ==
    CASE kind = "Bilirubin" -> Bilirubin_into(U, q)
      [] kind = "Creatinine" -> Creatinine_into(U, q)
      [] kind = "Glucose" -> Glucose_into(U, q)
      [] kind = "Sodium" -> Sodium_into(U, q)
      [] kind = "Weight" -> Weight_into(U, q)
      [] kind = "Height" -> Height_into(U, q)

(* The largest whole-number literal converted. *)
MaxConvLit == 7

(* The literals converted: zero, the whole numbers up to MaxConvLit, and   *)
(* the decimals 1.3, 1.75, 2.5, 5.75, 70, 80, 123.4 and 154.32.            *)
ConvLits ==
    {<<n, 1>> : n \in 0..MaxConvLit}
    \cup {<<13, 10>>, <<175, 100>>, <<25, 10>>, <<575, 100>>, <<70, 1>>, <<80, 1>>,
          <<1234, 10>>, <<15432, 100>>}

NoTraitCall == [fn |-> "none"]

InitConv ==
    /\ BuilderIdle
    /\ NaIdle
    /\ RangeIdle
    /\ CalcIdle
    /\ \E kind \in Kinds :
          \E U \in UnitsOf(kind), v \in ConvLits :
              /\ conv = [kind |-> kind,
                         original |-> [value |-> Lit(v[1], v[2]), unit |-> U],
                         previous |-> [value |-> Lit(v[1], v[2]), unit |-> U],
                         current |-> [value |-> Lit(v[1], v[2]), unit |-> U],
                         hops |-> 0,
                         trait |-> NoTraitCall]
              /\ lits = [value |-> v]

NotConv == <<va, vasc, call, calc_done, na_in, glu_in, na_out, range_in, range_out, lits,
             calc>>

(* U2::from(quantity): the quantity converted into the other unit. *)
ConvertInto ==
    /\ conv # NoQuantity
    /\ conv.hops < 2
    /\ \E U \in UnitsOf(conv.kind) \ {conv.current.unit} :
          conv' = [conv EXCEPT !.previous = conv.current,
                               !.current = Quantity_into(conv.kind, U, conv.current),
                               !.hops = conv.hops + 1,
                               !.trait = NoTraitCall]
    /\ UNCHANGED NotConv

(* U::to_<canonical>(value), on the value of the current quantity. *)
ToCanonical ==
    /\ conv # NoQuantity
    /\ \E U \in UnitsOf(conv.kind) :
          conv' = [conv EXCEPT !.trait =
                      [fn |-> "to_canonical", unit |-> U, arg |-> conv.current.value,
                       ret |-> to_canonical(conv.kind, U, conv.current.value)]]
    /\ UNCHANGED NotConv

(* U::from_<canonical>(value), on the value of the current quantity. *)
FromCanonical ==
    /\ conv # NoQuantity
    /\ \E U \in UnitsOf(conv.kind) :
          conv' = [conv EXCEPT !.trait =
                      [fn |-> "from_canonical", unit |-> U, arg |-> conv.current.value,
                       ret |-> from_canonical(conv.kind, U, conv.current.value)]]
    /\ UNCHANGED NotConv

NextConv ==
    \/ ConvertInto
    \/ ToCanonical
    \/ FromCanonical

SpecConv == InitConv /\ [][NextConv]_vars

----------------------------------------------------------------------------
(* Properties of the unit conversions, checked under SpecConv.             *)

(* |a - b| <= |b| / 10^9 *)
WithinRel1e9(a, b) ==
    F64Le(F64Abs(F64Sub(a, b)), F64Mul(F64Abs(b), Lit(1, 1000000000)))

(* C18: for every kind and either of its two units, a quantity converted   *)
(* into the other unit and back has its original unit and its original     *)
(* value to within a relative error of 1e-9; 70 kg converted to pounds and *)
(* back is 70.                                                             *)
C18_RoundTripWithin1e9 ==
    (conv # NoQuantity /\ conv.hops = 2) =>
        /\ conv.current.unit = conv.original.unit
        /\ WithinRel1e9(conv.current.value, conv.original.value)
        /\ (conv.kind = "Weight" /\ conv.original.unit = "Kg" /\ lits.value = <<70, 1>>)
              => conv.current.value = F64FromInt(70)

(* A creatinine of 3 mg/dL has been converted to umol/L and back, and has  *)
(* come back close to 3 but not as 3.                                      *)
C18_Witness ==
    /\ conv # NoQuantity
    /\ conv.hops = 2
    /\ conv.kind = "Creatinine"
    /\ conv.original = [value |-> F64FromInt(3), unit |-> "MgdL"]
    /\ conv.current.value # conv.original.value

(* C19: every conversion of a quantity into the other unit of its kind     *)
(* gives the value of the route through the unit trait: the target unit's  *)
(* from_canonical applied to the source unit's to_canonical.               *)
C19_FromAgreesWithCanonicalRoute ==
    (conv # NoQuantity /\ conv.hops >= 1) =>
        conv.current.value =
            from_canonical(conv.kind, conv.current.unit,
                           to_canonical(conv.kind, conv.previous.unit, conv.previous.value))

(* A creatinine in umol/L has been converted to mg/dL, the one conversion  *)
(* that divides. *)
C19_Witness ==
    /\ conv # NoQuantity
    /\ conv.hops = 1
    /\ conv.kind = "Creatinine"
    /\ conv.previous = [value |-> Lit(1234, 10), unit |-> "UmolL"]
    /\ conv.current.unit = "MgdL"

(* C20: on the canonical unit of each kind (umol/L, mmol/L, kg, m), and on *)
(* mEq/L for sodium, to_canonical and from_canonical return their argument *)
(* unchanged.                                                              *)
C20_CanonicalUnitIsIdentity ==
    (conv # NoQuantity /\ conv.trait # NoTraitCall
        /\ (conv.trait.unit = CanonicalUnit(conv.kind) \/ conv.kind = "Sodium")) =>
            conv.trait.ret = conv.trait.arg

(* from_canonical has been called on the canonical unit of weight with a   *)
(* value that came out of a conversion.                                    *)
C20_Witness ==
    /\ conv # NoQuantity
    /\ conv.kind = "Weight"
    /\ conv.hops = 1
    /\ conv.trait # NoTraitCall
    /\ conv.trait.fn = "from_canonical"
    /\ conv.trait.unit = "Kg"
    /\ conv.trait.ret = conv.current.value

----------------------------------------------------------------------------
(* calculators.rs: bmi *)

(* f64::powi for a positive exponent: repeated multiplication (x * x for   *)
(* the exponent 2 bmi uses).                                               *)
RECURSIVE F64Powi(_, _)
F64Powi(x, n) == IF n = 1 THEN x ELSE F64Mul(F64Powi(x, n - 1), x)

(* BmiExt::to_bmi *)
to_bmi(value) == [value |-> value, unit |-> "KgM2"]

(* bmi, had the height not been squared. *)
bmi_height_not_squared(height, weight) ==
    LET ht == HeightUnit_to_m(height.unit, height.value)
        wt == WeightUnit_to_kg(weight.unit, weight.value)
    IN  to_bmi(F64Div(wt, ht))

bmi(height, weight) ==
    LET ht == HeightUnit_to_m(height.unit, height.value)
        wt == WeightUnit_to_kg(weight.unit, weight.value)
    IN  to_bmi(F64Div(wt, F64Powi(ht, 2)))

----------------------------------------------------------------------------
(* One call of bmi.  The patient's height and weight are fixed as decimals *)
(* in feet and pounds; each argument is built either from that literal or  *)
(* from the decimal of the same measurement in metres or kilograms.        *)

(* The f64 the decimal (a / b) * (n / d) denotes: both products are exact. *)
LitProduct(a, b, n, d) ==
    F64Div(F64Mul(F64FromInt(a), F64FromInt(n)), F64Mul(F64FromInt(b), F64FromInt(d)))

(* How many quarter-foot steps above 5 ft and ten-pound steps above 100 lb *)
(* the measurements go.                                                    *)
MaxBmiStep == 4

(* Heights in hundredths of a foot. *)
HeightsFt == {<<500 + 25 * k, 100>> : k \in 0..MaxBmiStep}

(* Weights in hundredths of a pound: the steps, and 154.32 lb. *)
WeightsLb == {<<10000 + 1000 * k, 100>> : k \in 0..MaxBmiStep} \cup {<<15432, 100>>}

(* The height h (a decimal in feet) as the caller writes it in unit H. *)
HeightArg(H, h) ==
    Height_from(H, IF H = "Foot" THEN Lit(h[1], h[2])
                   ELSE LitProduct(3048, 10000, h[1], h[2]))

(* The weight w (a decimal in pounds) as the caller writes it in unit W. *)
WeightArg(W, w) ==
    Weight_from(W, IF W = "Lb" THEN Lit(w[1], w[2])
                   ELSE LitProduct(45359237, 100000000, w[1], w[2]))

InitBmi ==
    /\ BuilderIdle
    /\ NaIdle
    /\ RangeIdle
    /\ ConvIdle
    /\ \E h \in HeightsFt, w \in WeightsLb, H \in HeightUnit, W \in WeightUnit :
          /\ calc = [fn |-> "bmi", height |-> HeightArg(H, h), weight |-> WeightArg(W, w),
                     out |-> NoQuantity]
          /\ lits = [height_ft |-> h, weight_lb |-> w]

NotCalc == <<va, vasc, call, calc_done, na_in, glu_in, na_out, range_in, range_out, lits,
             conv>>

Bmi ==
    /\ calc # NoQuantity
    /\ calc.fn = "bmi"
    /\ calc.out = NoQuantity
    /\ calc' = [calc EXCEPT !.out = bmi(calc.height, calc.weight)]
    /\ UNCHANGED NotCalc

NextBmi == Bmi

SpecBmi == InitBmi /\ [][NextBmi]_vars

----------------------------------------------------------------------------
(* Properties of bmi, checked under SpecBmi.                               *)

BmiCalled == calc # NoQuantity /\ calc.fn = "bmi" /\ calc.out # NoQuantity

(* The quotient the call should give: the weight in kilograms over the     *)
(* square of the height in metres.                                         *)
BmiQuotient ==
    F64Div(IF calc.weight.unit = "Lb" THEN F64Mul(calc.weight.value, LB_TO_KG)
           ELSE calc.weight.value,
           IF calc.height.unit = "Foot"
           THEN F64Mul(F64Mul(calc.height.value, FT_TO_M), F64Mul(calc.height.value, FT_TO_M))
           ELSE F64Mul(calc.height.value, calc.height.value))

(* The results of bmi on the same height and weight in every combination   *)
(* of units.                                                               *)
BmiInAllUnits ==
    {bmi(HeightArg(H, lits.height_ft), WeightArg(W, lits.weight_lb)).value :
        H \in HeightUnit, W \in WeightUnit}

(* C17 as stated: bmi returns the weight in kg over the square of the      *)
(* height in m, tagged kg/m2, and the result is the same for every         *)
(* combination of input units denoting the same height and weight.         *)
C17_BmiSameInAllUnits ==
    BmiCalled =>
        /\ calc.out.unit = "KgM2"
        /\ calc.out.value = BmiQuotient
        /\ BmiInAllUnits = {calc.out.value}

(* C17, amended: bmi returns the weight in kg over the square of the       *)
(* height in m, tagged kg/m2, and the results for the combinations of      *)
(* input units denoting the same height and weight differ by at most 1e-9. *)
C17_BmiWithin1e9InAllUnits ==
    BmiCalled =>
        /\ calc.out.unit = "KgM2"
        /\ calc.out.value = BmiQuotient
        /\ \A r \in BmiInAllUnits :
              F64Le(F64Abs(F64Sub(r, calc.out.value)), Lit(1, 1000000000))

(* bmi has been called with feet and kilograms, and metres and pounds      *)
(* would have given another f64.                                           *)
C17_Witness ==
    /\ BmiCalled
    /\ calc.height.unit = "Foot"
    /\ calc.weight.unit = "Kg"
    /\ bmi(HeightArg("Meter", lits.height_ft), WeightArg("Lb", lits.weight_lb)).value
          # calc.out.value

----------------------------------------------------------------------------
(* calculators.rs: meld *)

(* LastDialysis = Option<u8>: days since the last dialysis *)
LastDialysis(days) == {None} \cup {Some(d) : d \in days}

(* InrExt::inr *)
InrExt_inr(value) == [value |-> value, unit |-> "InrUnit"]

(* From<f64> for Inr<U>, for any U: Unit *)
Inr_from(U, value) == [value |-> value, unit |-> U]

(* f64::round, had halves been rounded to the even neighbour. *)
meld_round_ties_even(raw_score) ==
    LET away == F64RoundInt(raw_score)
        down == F64Sub(away, F64FromInt(1))
    IN  IF F64Sub(away, raw_score) = Lit(1, 2) /\ F64AsU8(F64Abs(away)) % 2 = 1
        THEN down
        ELSE away

(* raw_score.round() *)
meld_round(raw_score) == F64RoundInt(raw_score)

(* The creatinine meld uses, had the override been for fewer than 7 days. *)
meld_scr_used_before_day_7(scr_mgdl, last_hd) ==
    IF last_hd # None
    THEN IF last_hd[1] < 7 THEN F64FromInt(4) ELSE F64Max(scr_mgdl, F64FromInt(1))
    ELSE F64Max(scr_mgdl, F64FromInt(1))

(* The creatinine meld uses: 4.0 mg/dL if dialysed within 7 days, else the *)
(* measured value floored at 1.0.                                          *)
meld_scr_used(scr_mgdl, last_hd) ==
    IF last_hd # None
    THEN IF last_hd[1] <= 7 THEN F64FromInt(4) ELSE F64Max(scr_mgdl, F64FromInt(1))
    ELSE F64Max(scr_mgdl, F64FromInt(1))

(* The bilirubin meld uses, had it no floor. *)
meld_bili_used_no_floor(bili_mgdl) == bili_mgdl

(* The bilirubin meld uses: floored at 1.0. *)
meld_bili_used(bili_mgdl) == F64Max(bili_mgdl, F64FromInt(1))

meld_bili_mgdl(bili) ==
    F64Mul(BilirubinUnit_to_umoll(bili.unit, bili.value), SBILI_UMOLL_TO_MGDL)

meld_scr_mgdl(scr) ==
    F64Mul(CreatinineUnit_to_umol_l(scr.unit, scr.value), SCR_UMOLL_TO_MGDL)

(* raw_score, from the bilirubin and creatinine meld uses *)
meld_terms(bili_mgdl, inr, scr_mgdl) ==
    LET bili_term == F64Mul(Lit(378, 100), F64Ln(bili_mgdl))
        inr_term  == F64Mul(Lit(112, 10), F64Ln(inr.value))
        scr_term  == F64Mul(Lit(957, 100), F64Ln(scr_mgdl))
    IN  F64Add(F64Add(F64Add(bili_term, inr_term), scr_term), Lit(643, 100))

(* meld up to raw_score *)
meld_raw_score(bili, inr, scr, last_hd) ==
    meld_terms(meld_bili_used(meld_bili_mgdl(bili)), inr,
               meld_scr_used(meld_scr_mgdl(scr), last_hd))

(* raw_score.round() as u8 *)
meld_return(raw_score) == F64AsU8(meld_round(raw_score))

meld(bili, inr, scr, last_hd) == meld_return(meld_raw_score(bili, inr, scr, last_hd))

----------------------------------------------------------------------------
(* One call of meld.  The patient's bilirubin and creatinine are fixed as  *)
(* decimals in mg/dL; each argument is built either from that literal or   *)
(* from the decimal of the same measurement in umol/L.  The call leaves in *)
(* calc the locals bili_mgdl, scr_mgdl and raw_score as they stand when    *)
(* meld returns, and its result in calc.out.                               *)

(* Bilirubin levels, in tenths of a mg/dL. *)
MeldBiliLits == {<<5, 10>>, <<10, 10>>, <<11, 10>>, <<30, 10>>}

(* Creatinine levels, in tenths of a mg/dL. *)
MeldScrLits == {<<5, 10>>, <<10, 10>>, <<60, 10>>}

(* 1.203003598874784: with bilirubin and creatinine at 1.0 mg/dL the raw   *)
(* score is 8.5 exactly.                                                   *)
InrRawAtHalf == [sign |-> 0, mant |-> <<13107, 3720, 14347, 1231>>, exp |-> -52]

(* 1.2737177129081332: with creatinine at 1.0 mg/dL the raw score is 9.5   *)
(* exactly for a bilirubin of 1.1 mg/dL.                                   *)
InrRawNearHalf == [sign |-> 0, mant |-> <<11245, 3153, 4701, 1304>>, exp |-> -52]

(* 10^10: with any bilirubin and creatinine the raw score is above 255. *)
InrRawAbove255 == F64Mul(F64FromInt(100000), F64FromInt(100000))

MeldInrs ==
    {Lit(5, 10), Lit(8, 10), F64FromInt(1), InrRawAtHalf, InrRawNearHalf, InrRawAbove255}

(* How far on each side of the 7-day limit the days since dialysis go. *)
HdSpan == 1

MeldDays == {0, 255} \cup ((7 - HdSpan)..(8 + HdSpan))

(* The bilirubin b (a decimal in mg/dL) as the caller writes it in unit B. *)
BiliArg(B, b) ==
    Bilirubin_from(B, IF B = "MgdL" THEN Lit(b[1], b[2])
                      ELSE LitProduct(171, 10, b[1], b[2]))

(* The creatinine c (a decimal in mg/dL) as the caller writes it in unit C. *)
ScrArg(C, c) ==
    Creatinine_from(C, IF C = "MgdL" THEN Lit(c[1], c[2])
                       ELSE LitProduct(884, 10, c[1], c[2]))

InitMeld ==
    /\ BuilderIdle
    /\ NaIdle
    /\ RangeIdle
    /\ ConvIdle
    /\ \E b \in MeldBiliLits, B \in BilirubinUnit, c \in MeldScrLits, C \in CreatinineUnit,
          i \in MeldInrs, hd \in LastDialysis(MeldDays) :
          /\ calc = [fn |-> "meld", bili |-> BiliArg(B, b), inr |-> InrExt_inr(i),
                     scr |-> ScrArg(C, c), last_hd |-> hd, bili_mgdl |-> None,
                     scr_mgdl |-> None, raw_score |-> None, out |-> None]
          /\ lits = [bili_mgdl |-> b, scr_mgdl |-> c]

Meld ==
    /\ calc # NoQuantity
    /\ calc.fn = "meld"
    /\ calc.out = None
    /\ \E bili_mgdl \in {meld_bili_used(meld_bili_mgdl(calc.bili))},
          scr_mgdl \in {meld_scr_used(meld_scr_mgdl(calc.scr), calc.last_hd)} :
          \E raw_score \in {meld_terms(bili_mgdl, calc.inr, scr_mgdl)} :
              calc' = [calc EXCEPT !.bili_mgdl = Some(bili_mgdl),
                                   !.scr_mgdl = Some(scr_mgdl),
                                   !.raw_score = Some(raw_score),
                                   !.out = Some(meld_return(raw_score))]
    /\ UNCHANGED NotCalc

NextMeld == Meld

SpecMeld == InitMeld /\ [][NextMeld]_vars

----------------------------------------------------------------------------
(* Properties of meld, checked under SpecMeld.                             *)

MeldCalled == calc # NoQuantity /\ calc.fn = "meld" /\ calc.out # None

(* 3.78 ln(b) + 11.2 ln(i) + 9.57 ln(s) + 6.43 *)
MeldFormula(b, i, s) ==
    F64Add(F64Add(F64Add(F64Mul(Lit(378, 100), F64Ln(b)), F64Mul(Lit(112, 10), F64Ln(i))),
                  F64Mul(Lit(957, 100), F64Ln(s))),
           Lit(643, 100))

(* max(x, 1.0) *)
Floored(x) == IF F64Lt(x, F64FromInt(1)) THEN F64FromInt(1) ELSE x

(* The call is one with dialysis within the last 7 days. *)
Override == calc.last_hd # None /\ calc.last_hd[1] <= 7

(* C11: bilirubin in mg/dL enters the logarithm as max(bilirubin, 1.0)     *)
(* whatever the other arguments; without the dialysis override creatinine  *)
(* in mg/dL enters as max(creatinine, 1.0); INR enters as given: with      *)
(* bilirubin and creatinine floored to 1.0 an INR of 0.8 gives the raw     *)
(* score 11.2 ln(0.8) + 6.43, below 6.43, and a score of 4.                *)
C11_MeldFloors ==
    MeldCalled =>
        /\ calc.bili_mgdl[1] = Floored(meld_bili_mgdl(calc.bili))
        /\ LitLe(lits.bili_mgdl, 1, 1) => calc.bili_mgdl[1] = F64FromInt(1)
        /\ ~Override =>
              /\ calc.scr_mgdl[1] = Floored(meld_scr_mgdl(calc.scr))
              /\ LitLe(lits.scr_mgdl, 1, 1) => calc.scr_mgdl[1] = F64FromInt(1)
        /\ (calc.bili_mgdl[1] = F64FromInt(1) /\ calc.scr_mgdl[1] = F64FromInt(1)
               /\ calc.inr.value = Lit(8, 10)) =>
              /\ calc.raw_score[1] = F64Add(F64Mul(Lit(112, 10), F64Ln(Lit(8, 10))),
                                            Lit(643, 100))
              /\ F64Lt(calc.raw_score[1], Lit(643, 100))
              /\ calc.out[1] = 4

(* meld has been called with a bilirubin, an INR and a creatinine all      *)
(* below 1.0, and no dialysis.                                             *)
C11_Witness ==
    /\ MeldCalled
    /\ lits.bili_mgdl = <<5, 10>>
    /\ lits.scr_mgdl = <<5, 10>>
    /\ calc.inr.value = Lit(8, 10)
    /\ calc.last_hd = None
    /\ calc.out = Some(4)

(* C12: with last_hd = Some(d), d <= 7, the creatinine used is exactly 4.0 *)
(* mg/dL whatever was measured; with Some(d), d >= 8, or None it is the    *)
(* measured creatinine floored at 1.0, and Some(d), d >= 8, gives the      *)
(* score None gives.                                                       *)
C12_DialysisOverride ==
    MeldCalled =>
        IF calc.last_hd # None /\ calc.last_hd[1] \in 0..7
        THEN calc.scr_mgdl[1] = F64FromInt(4)
        ELSE /\ calc.scr_mgdl[1] = Floored(meld_scr_mgdl(calc.scr))
             /\ calc.last_hd # None =>
                   calc.out[1] = meld(calc.bili, calc.inr, calc.scr, None)

(* meld has been called for a patient dialysed 7 days ago whose creatinine *)
(* is 6.0 mg/dL.                                                           *)
C12_Witness ==
    /\ MeldCalled
    /\ calc.last_hd = Some(7)
    /\ lits.scr_mgdl = <<60, 10>>
    /\ meld_scr_mgdl(calc.scr) = F64FromInt(6)
    /\ calc.scr_mgdl = Some(F64FromInt(4))

(* C13: the score is the raw score 3.78 ln(bili) + 11.2 ln(INR) +          *)
(* 9.57 ln(scr) + 6.43 rounded to the nearest integer, halves away from    *)
(* zero, as a u8: score - 0.5 <= raw < score + 0.5 for a raw score from    *)
(* -0.5 up.  Bilirubin, INR and creatinine of 1.0 and no dialysis give a   *)
(* raw score of 6.43 and a score of 6.                                     *)
C13_RoundedHalfAwayAsU8 ==
    MeldCalled =>
        /\ calc.out[1] \in 0..255
        /\ calc.raw_score[1] =
              MeldFormula(calc.bili_mgdl[1], calc.inr.value, calc.scr_mgdl[1])
        /\ (F64Lt(Lit(-1, 2), calc.raw_score[1]) /\ calc.out[1] < 255) =>
              /\ F64Le(Lit(2 * calc.out[1] - 1, 2), calc.raw_score[1])
              /\ F64Lt(calc.raw_score[1], Lit(2 * calc.out[1] + 1, 2))
        /\ (lits.bili_mgdl = <<10, 10>> /\ lits.scr_mgdl = <<10, 10>>
               /\ calc.inr.value = F64FromInt(1) /\ calc.last_hd = None) =>
              /\ calc.raw_score[1] = Lit(643, 100)
              /\ calc.out[1] = 6

(* meld has been called with a raw score of exactly 8.5, and has returned  *)
(* 9.                                                                      *)
C13_Witness ==
    /\ MeldCalled
    /\ calc.raw_score[1] = Lit(85, 10)
    /\ calc.out = Some(9)

(* The raw scores of meld on the same bilirubin and creatinine in the      *)
(* other combinations of units.                                            *)
MeldInOtherUnits ==
    {meld_raw_score(BiliArg(u[1], lits.bili_mgdl), calc.inr,
                    ScrArg(u[2], lits.scr_mgdl), calc.last_hd) :
        u \in (BilirubinUnit \X CreatinineUnit) \ {<<calc.bili.unit, calc.scr.unit>>}}

(* C14 as stated: the score is the same whether bilirubin is given in      *)
(* mg/dL or umol/L and whether creatinine is given in mg/dL or umol/L, for *)
(* every INR and dialysis argument.                                        *)
C14_MeldSameInAllUnits ==
    MeldCalled => \A raw \in MeldInOtherUnits : meld_return(raw) = calc.out[1]

(* How far the unit combinations are apart: for the same bilirubin and     *)
(* creatinine the raw scores differ by at most 1e-9, and the scores are    *)
(* the same unless the raw score is within 1e-9 of the half between them,  *)
(* where they differ by one.                                               *)
MeldSameUnlessRawAtHalf ==
    MeldCalled =>
        \A raw \in MeldInOtherUnits :
            /\ F64Le(F64Abs(F64Sub(raw, calc.raw_score[1])), Lit(1, 1000000000))
            /\ \/ meld_return(raw) = calc.out[1]
               \/ /\ meld_return(raw) - calc.out[1] \in {-1, 1}
                  /\ F64Le(F64Abs(F64Sub(calc.raw_score[1],
                                         Lit(meld_return(raw) + calc.out[1], 2))),
                           Lit(1, 1000000000))

----------------------------------------------------------------------------
(* calculators.rs: egfr_ckd_epi, and lab/gfr.rs *)

(* From<f64> for Gfr<GfrUnit> *)
Gfr_from(value) == [value |-> value, unit |-> "GfrUnit"]

(* (kappa, alpha, sex_mult), had the male constants been used for both     *)
(* sexes.                                                                  *)
egfr_constants_male_only(sex) ==
    [kappa |-> Lit(9, 10), alpha |-> F64Neg(Lit(302, 1000)), sex_mult |-> F64FromInt(1)]

(* (kappa, alpha, sex_mult) *)
egfr_constants(sex) ==
    IF sex = "Female"
    THEN [kappa |-> Lit(7, 10), alpha |-> F64Neg(Lit(241, 1000)),
          sex_mult |-> Lit(1012, 1000)]
    ELSE [kappa |-> Lit(9, 10), alpha |-> F64Neg(Lit(302, 1000)),
          sex_mult |-> F64FromInt(1)]

(* scr_mg_dl, had a value in mg/dL been taken as umol/L. *)
egfr_scr_mg_dl_unit_ignored(scr) == CreatinineUnit_from_umol_l("MgdL", scr.value)

(* scr_mg_dl *)
egfr_scr_mg_dl(scr) ==
    CreatinineUnit_from_umol_l("MgdL", CreatinineUnit_to_umol_l(scr.unit, scr.value))

(* second_term *)
egfr_second_term(ratio, alpha) == F64Powf(F64Min(F64FromInt(1), ratio), alpha)

(* third_term *)
egfr_third_term(ratio) == F64Powf(F64Max(F64FromInt(1), ratio), F64Neg(Lit(1200, 1000)))

(* fourth_term *)
egfr_fourth_term(age) == F64Powf(Lit(9938, 10000), age)

(* egfr *)
egfr_product(second_term, third_term, fourth_term, sex_mult) ==
    F64Mul(F64Mul(F64Mul(F64Mul(F64FromInt(142), second_term), third_term), fourth_term),
           sex_mult)

egfr_ckd_epi(scr, age, sex) ==
    LET c     == egfr_constants(sex)
        ratio == F64Div(egfr_scr_mg_dl(scr), c.kappa)
    IN  Gfr_from(egfr_product(egfr_second_term(ratio, c.alpha), egfr_third_term(ratio),
                              egfr_fourth_term(age), c.sex_mult))

----------------------------------------------------------------------------
(* One call of egfr_ckd_epi.  The patient's creatinine is fixed as a       *)
(* decimal in mg/dL; the argument is built either from that literal or     *)
(* from the decimal of the same measurement in umol/L.  The call leaves in *)
(* calc the locals scr_mg_dl, ratio, second_term and third_term as they    *)
(* stand when egfr_ckd_epi returns, and its result in calc.out.            *)

(* Creatinine levels, in tenths of a mg/dL. *)
EgfrScrLits ==
    {<<1, 10>>, <<5, 10>>, <<7, 10>>, <<8, 10>>, <<9, 10>>, <<10, 10>>, <<12, 10>>,
     <<15, 10>>, <<30, 10>>, <<60, 10>>}

(* How many decades above 30 the ages go. *)
MaxAgeStep == 4

EgfrAges == {F64FromInt(25)} \cup {F64FromInt(30 + 10 * k) : k \in 0..MaxAgeStep}

InitEgfr ==
    /\ BuilderIdle
    /\ NaIdle
    /\ RangeIdle
    /\ ConvIdle
    /\ \E c \in EgfrScrLits, C \in CreatinineUnit, age \in EgfrAges, sex \in Gender :
          /\ calc = [fn |-> "egfr_ckd_epi", scr |-> ScrArg(C, c), age |-> age, sex |-> sex,
                     scr_mg_dl |-> None, ratio |-> None, second_term |-> None,
                     third_term |-> None, out |-> NoQuantity]
          /\ lits = [scr_mgdl |-> c]

Egfr ==
    /\ calc # NoQuantity
    /\ calc.fn = "egfr_ckd_epi"
    /\ calc.out = NoQuantity
    /\ \E c \in {egfr_constants(calc.sex)}, scr_mg_dl \in {egfr_scr_mg_dl(calc.scr)} :
          \E ratio \in {F64Div(scr_mg_dl, c.kappa)} :
              \E second_term \in {egfr_second_term(ratio, c.alpha)},
                 third_term \in {egfr_third_term(ratio)} :
                  calc' = [calc EXCEPT
                              !.scr_mg_dl = Some(scr_mg_dl),
                              !.ratio = Some(ratio),
                              !.second_term = Some(second_term),
                              !.third_term = Some(third_term),
                              !.out = Gfr_from(egfr_product(second_term, third_term,
                                                            egfr_fourth_term(calc.age),
                                                            c.sex_mult))]
    /\ UNCHANGED NotCalc

NextEgfr == Egfr

SpecEgfr == InitEgfr /\ [][NextEgfr]_vars

----------------------------------------------------------------------------
(* Properties of egfr_ckd_epi, checked under SpecEgfr.                     *)

EgfrCalled == calc # NoQuantity /\ calc.fn = "egfr_ckd_epi" /\ calc.out # NoQuantity

(* 142 * min(1, scr/k)^a * max(1, scr/k)^(-1.200) * 0.9938^age * m *)
EgfrFormula(scr, age, k, a, m) ==
    F64Mul(F64Mul(F64Mul(F64Mul(F64FromInt(142),
                                F64Powf(F64Min(F64FromInt(1), F64Div(scr, k)), a)),
                         F64Powf(F64Max(F64FromInt(1), F64Div(scr, k)),
                                 F64Neg(Lit(1200, 1000)))),
                  F64Powf(Lit(9938, 10000), age)),
           m)

(* C15: the result is 142 * min(1, scr/k)^a * max(1, scr/k)^(-1.200) *     *)
(* 0.9938^age * m on the creatinine in mg/dL, with (k, a, m) =             *)
(* (0.7, -0.241, 1.012) for Female and (0.9, -0.302, 1.0) for Male; when   *)
(* scr/k <= 1 the max-term is 1, when scr/k >= 1 the min-term is 1; the    *)
(* result is not negative and is tagged mL/min/1.73m2.                     *)
C15_EgfrFormula ==
    EgfrCalled =>
        /\ WithinRel1e9(calc.scr_mg_dl[1], Lit(lits.scr_mgdl[1], lits.scr_mgdl[2]))
        /\ calc.out.value =
              IF calc.sex = "Female"
              THEN EgfrFormula(calc.scr_mg_dl[1], calc.age, Lit(7, 10),
                               F64Neg(Lit(241, 1000)), Lit(1012, 1000))
              ELSE EgfrFormula(calc.scr_mg_dl[1], calc.age, Lit(9, 10),
                               F64Neg(Lit(302, 1000)), F64FromInt(1))
        /\ F64Le(calc.ratio[1], F64FromInt(1)) => calc.third_term[1] = F64FromInt(1)
        /\ F64Ge(calc.ratio[1], F64FromInt(1)) => calc.second_term[1] = F64FromInt(1)
        /\ ~F64Lt(calc.out.value, F64Zero)
        /\ calc.out.unit = "GfrUnit"

(* egfr_ckd_epi has been called for a woman whose creatinine is below 0.7  *)
(* mg/dL: the min-term is above 1 and the max-term is 1.                   *)
C15_Witness ==
    /\ EgfrCalled
    /\ calc.sex = "Female"
    /\ F64Lt(calc.ratio[1], F64FromInt(1))
    /\ F64Lt(F64FromInt(1), calc.second_term[1])
    /\ calc.third_term[1] = F64FromInt(1)
    /\ F64Lt(F64FromInt(142), calc.out.value)

(* The result of egfr_ckd_epi on the same creatinine in the other unit. *)
EgfrInOtherUnit ==
    egfr_ckd_epi(ScrArg(CHOOSE C \in CreatinineUnit : C # calc.scr.unit, lits.scr_mgdl),
                 calc.age, calc.sex)

(* C16 as stated: for every age and sex the creatinine in umol/L gives the *)
(* identical eGFR as the same creatinine in mg/dL, both reaching the       *)
(* formula as the same mg/dL value.                                        *)
C16_EgfrSameInBothUnits ==
    EgfrCalled =>
        /\ EgfrInOtherUnit = calc.out
        /\ egfr_scr_mg_dl(ScrArg("MgdL", lits.scr_mgdl))
              = egfr_scr_mg_dl(ScrArg("UmolL", lits.scr_mgdl))

(* C16, amended: for every age and sex the creatinine in umol/L gives the  *)
(* eGFR of the same creatinine in mg/dL to within 1e-9, with the same tag, *)
(* the two reaching the formula as mg/dL values within a relative 1e-9 of  *)
(* each other.                                                             *)
C16_EgfrWithin1e9InBothUnits ==
    EgfrCalled =>
        /\ EgfrInOtherUnit.unit = calc.out.unit
        /\ F64Le(F64Abs(F64Sub(EgfrInOtherUnit.value, calc.out.value)),
                 Lit(1, 1000000000))
        /\ WithinRel1e9(egfr_scr_mg_dl(ScrArg("MgdL", lits.scr_mgdl)),
                        egfr_scr_mg_dl(ScrArg("UmolL", lits.scr_mgdl)))

(* egfr_ckd_epi has been called with a creatinine in umol/L, and the same  *)
(* creatinine in mg/dL would have reached the formula as another f64 and   *)
(* given another eGFR.                                                     *)
C16_Witness ==
    /\ EgfrCalled
    /\ calc.scr.unit = "UmolL"
    /\ egfr_scr_mg_dl(ScrArg("MgdL", lits.scr_mgdl)) # calc.scr_mg_dl[1]
    /\ EgfrInOtherUnit.value # calc.out.value

----------------------------------------------------------------------------
(* Further properties of the score builders, checked under Spec.           *)

(* The builder calculate() would return for the builder as it stands. *)
Calculated ==
    IF va # NoBuilder THEN Cha2Ds2VA_calculate(va) ELSE ChadsVasc_calculate(vasc)

(* C26: whenever the score is present it is the tally calculate() would    *)
(* compute from the builder's current age, sex and flags.                  *)
C26_ScoreNeverStale == Score # None => Score = Calculated.score

(* The flag a setter marks. *)
FlagOf(op) ==
    CASE op = "has_chf" -> "chf"
      [] op = "has_diabetes" -> "diabetes"
      [] op = "has_htn" -> "htn"
      [] op = "has_stroke_hx" -> "stroke"
      [] op = "has_vascular_hx" -> "vasc"

(* The setter op applied to the builder b. *)
ApplySetter(op, b) ==
    IF "sex" \in DOMAIN b
    THEN CASE op = "has_chf" -> ChadsVasc_has_chf(b)
           [] op = "has_diabetes" -> ChadsVasc_has_diabetes(b)
           [] op = "has_htn" -> ChadsVasc_has_htn(b)
           [] op = "has_stroke_hx" -> ChadsVasc_has_stroke_hx(b)
           [] op = "has_vascular_hx" -> ChadsVasc_has_vascular_hx(b)
    ELSE CASE op = "has_chf" -> Cha2Ds2VA_has_chf(b)
           [] op = "has_diabetes" -> Cha2Ds2VA_has_diabetes(b)
           [] op = "has_htn" -> Cha2Ds2VA_has_htn(b)
           [] op = "has_stroke_hx" -> Cha2Ds2VA_has_stroke_hx(b)
           [] op = "has_vascular_hx" -> Cha2Ds2VA_has_vascular_hx(b)

FlagNames == {"chf", "diabetes", "htn", "stroke", "vasc"}

(* C27: a setter leaves its own flag true and every other field of the     *)
(* builder (age, sex, the four other flags, the score) as it was; no       *)
(* operation turns a true flag false; a setter applied a second time       *)
(* changes nothing.                                                        *)
C27_SetterFrame ==
    [][/\ \A f \in FlagNames : Builder[f] => Builder'[f]
       /\ call'.op \in SetterOps =>
             /\ Builder'[FlagOf(call'.op)]
             /\ \A f \in (DOMAIN Builder) \ {FlagOf(call'.op)} : Builder'[f] = Builder[f]
             /\ DOMAIN Builder' = DOMAIN Builder
             /\ ApplySetter(call'.op, Builder') = Builder']_vars

(* has_diabetes has been applied to a calculated builder whose heart       *)
(* failure flag is set and whose hypertension flag is not.                 *)
C27_Witness ==
    /\ call.op = "has_diabetes"
    /\ Builder.diabetes
    /\ Builder.chf
    /\ ~Builder.htn
    /\ Score # None

----------------------------------------------------------------------------
(* Further properties of correct_na_for_glucose, checked under SpecNa.     *)

(* The results of correct_na_for_glucose for the sodium of the call and    *)
(* every glucose literal of the same unit that is not above the glucose of *)
(* the call.                                                               *)
CorrectedAtLowerGlucose ==
    {correct_na_for_glucose(na_in, Glucose_from(g.unit, Lit(g.num, g.den))).value :
        g \in {h \in GlucoseLits :
                  h.unit = glu_in.unit /\ LitLe(<<h.num, h.den>>, lits.glu[1], lits.glu[2])}}

(* C28: for a fixed sodium the result does not decrease as the glucose     *)
(* increases, the step from the Katz to the Hillier formula at 22.2 mmol/L *)
(* included, and with a glucose of 5.6 mmol/L it is the measured sodium.   *)
C28_NonDecreasingInGlucose ==
    na_out # NoQuantity =>
        /\ \A lower \in CorrectedAtLowerGlucose : F64Le(lower, na_out.value)
        /\ (glu_in.unit = "MmolL" /\ lits.glu = <<56, 10>>) => na_out.value = na_in.value

(* The call has been made with a glucose of 22.2 mmol/L, and the result is *)
(* above the result for 22.19 mmol/L.                                      *)
C28_Witness ==
    /\ na_out # NoQuantity
    /\ glu_in.unit = "MmolL"
    /\ lits.glu = <<222, 10>>
    /\ F64Lt(correct_na_for_glucose(na_in, Glucose_from("MmolL", Lit(2219, 100))).value,
             na_out.value)

----------------------------------------------------------------------------
(* Further properties of meld, checked under SpecMeld.                     *)

(* C30: the score lies in 0..255: it is 0 when the rounded raw score is    *)
(* negative, as with bilirubin and creatinine floored to 1.0 and an INR of *)
(* 0.5, where the raw score is 11.2 ln(0.5) + 6.43; it is 255 when the raw *)
(* score is above 255; and it is the rounded raw score in between, the     *)
(* conversion to u8 never wrapping around.                                 *)
C30_MeldSaturates ==
    MeldCalled =>
        /\ calc.out[1] \in 0..255
        /\ F64Lt(F64RoundInt(calc.raw_score[1]), F64Zero) => calc.out[1] = 0
        /\ F64Lt(F64FromInt(255), calc.raw_score[1]) => calc.out[1] = 255
        /\ (F64Le(F64Zero, F64RoundInt(calc.raw_score[1]))
               /\ F64Le(F64RoundInt(calc.raw_score[1]), F64FromInt(255))) =>
              F64FromInt(calc.out[1]) = F64RoundInt(calc.raw_score[1])
        /\ (calc.bili_mgdl[1] = F64FromInt(1) /\ calc.scr_mgdl[1] = F64FromInt(1)
               /\ calc.inr.value = Lit(5, 10)) =>
              /\ calc.raw_score[1] = F64Add(F64Mul(Lit(112, 10), F64Ln(Lit(5, 10))),
                                            Lit(643, 100))
              /\ F64Lt(calc.raw_score[1], Lit(-1, 2))
              /\ calc.out[1] = 0

(* meld has been called with bilirubin and creatinine floored to 1.0 and   *)
(* an INR of 0.5: the raw score rounds to -1 and the score is 0.           *)
C30_Witness ==
    /\ MeldCalled
    /\ calc.bili_mgdl = Some(F64FromInt(1))
    /\ calc.scr_mgdl = Some(F64FromInt(1))
    /\ calc.inr.value = Lit(5, 10)
    /\ F64RoundInt(calc.raw_score[1]) = F64FromInt(-1)
    /\ calc.out = Some(0)

(* meld has been called with a raw score above 255, and has returned 255. *)
MeldAbove255 ==
    /\ MeldCalled
    /\ F64Lt(F64FromInt(255), calc.raw_score[1])
    /\ calc.out = Some(255)

----------------------------------------------------------------------------
(* Further properties of the unit conversions, checked under SpecConv: the *)
(* conversion factors of constants.rs and the places that use them.        *)

(* The kinds whose two units differ by a factor. *)
FactorKinds == {"Bilirubin", "Creatinine", "Glucose", "Weight", "Height"}

(* The factor constants.rs writes as a literal. *)
ForwardFactor(kind) ==
    CASE kind = "Bilirubin" -> SBILI_MGDL_TO_UMOLL
      [] kind = "Creatinine" -> SCR_MGDL_TO_UMOLL
      [] kind = "Glucose" -> GLU_MMOLL_TO_MGDL
      [] kind = "Weight" -> LB_TO_KG
      [] kind = "Height" -> FT_TO_M

(* The factor constants.rs derives from the literal one. *)
InverseFactor(kind) ==
    CASE kind = "Bilirubin" -> SBILI_UMOLL_TO_MGDL
      [] kind = "Creatinine" -> SCR_UMOLL_TO_MGDL
      [] kind = "Glucose" -> GLU_MGDL_TO_MMOLL
      [] kind = "Weight" -> KG_TO_LB
      [] kind = "Height" -> M_TO_FT

(* The unit a conversion in the inverse direction arrives at. *)
InverseUnit(kind) ==
    CASE kind = "Bilirubin" -> "MgdL"
      [] kind = "Creatinine" -> "MgdL"
      [] kind = "Glucose" -> "MmolL"
      [] kind = "Weight" -> "Lb"
      [] kind = "Height" -> "Foot"

(* The last From conversion went in the inverse direction. *)
InverseHop ==
    /\ conv # NoQuantity
    /\ conv.kind \in FactorKinds
    /\ conv.hops >= 1
    /\ conv.current.unit = InverseUnit(conv.kind)

(* The last unit-trait call converted in the inverse direction. *)
InverseTraitCall ==
    /\ conv # NoQuantity
    /\ conv.kind \in FactorKinds
    /\ conv.trait # NoTraitCall
    /\ conv.trait.unit # CanonicalUnit(conv.kind)
    /\ \/ conv.trait.fn = "from_canonical" /\ InverseUnit(conv.kind) # CanonicalUnit(conv.kind)
       \/ conv.trait.fn = "to_canonical" /\ InverseUnit(conv.kind) = CanonicalUnit(conv.kind)

(* C21 as stated: the product of every forward factor and its inverse is   *)
(* exactly 1, and every conversion in the inverse direction gives exactly  *)
(* its argument times the inverse factor.                                  *)
C21_ExactReciprocals ==
    (conv # NoQuantity /\ conv.kind \in FactorKinds) =>
        /\ F64Mul(ForwardFactor(conv.kind), InverseFactor(conv.kind)) = F64FromInt(1)
        /\ InverseHop =>
              conv.current.value = F64Mul(conv.previous.value, InverseFactor(conv.kind))
        /\ InverseTraitCall =>
              conv.trait.ret = F64Mul(conv.trait.arg, InverseFactor(conv.kind))

(* C21: every inverse factor is the f64 reciprocal of its forward factor;  *)
(* their product is 1 to within 1e-9, and exactly 1 for every kind but     *)
(* height; every conversion in the inverse direction gives its argument    *)
(* times the inverse factor to within a relative 1e-9, and exactly that    *)
(* product for every kind but creatinine, which divides by the forward     *)
(* factor.                                                                 *)
C21_ReciprocalsWithin1e9 ==
    (conv # NoQuantity /\ conv.kind \in FactorKinds) =>
        /\ InverseFactor(conv.kind) = F64Recip(ForwardFactor(conv.kind))
        /\ WithinRel1e9(F64Mul(ForwardFactor(conv.kind), InverseFactor(conv.kind)),
                        F64FromInt(1))
        /\ conv.kind # "Height" =>
              F64Mul(ForwardFactor(conv.kind), InverseFactor(conv.kind)) = F64FromInt(1)
        /\ InverseHop =>
              /\ WithinRel1e9(conv.current.value,
                              F64Mul(conv.previous.value, InverseFactor(conv.kind)))
              /\ conv.kind # "Creatinine" =>
                    conv.current.value =
                        F64Mul(conv.previous.value, InverseFactor(conv.kind))
              /\ conv.kind = "Creatinine" =>
                    conv.current.value =
                        F64Div(conv.previous.value, ForwardFactor(conv.kind))
        /\ InverseTraitCall =>
              /\ WithinRel1e9(conv.trait.ret,
                              F64Mul(conv.trait.arg, InverseFactor(conv.kind)))
              /\ conv.kind # "Creatinine" =>
                    conv.trait.ret = F64Mul(conv.trait.arg, InverseFactor(conv.kind))
              /\ conv.kind = "Creatinine" =>
                    conv.trait.ret = F64Div(conv.trait.arg, ForwardFactor(conv.kind))

(* A creatinine in umol/L has been divided into mg/dL and the quotient is  *)
(* not the product with the inverse factor.                                *)
C21_Witness ==
    /\ InverseHop
    /\ conv.kind = "Creatinine"
    /\ conv.current.value # F64Mul(conv.previous.value, SCR_UMOLL_TO_MGDL)

(* A height in metres has been converted to feet, with the one pair of     *)
(* factors whose product is not 1.                                         *)
HeightFactorsInexact ==
    /\ InverseHop
    /\ conv.kind = "Height"
    /\ F64Mul(FT_TO_M, M_TO_FT) # F64FromInt(1)

----------------------------------------------------------------------------
(* lab/blood/sodium.rs, lab/blood/glucose.rs: the threshold tables and the *)
(* range() of a sodium and of a glucose, which compare with < themselves.  *)

NA_SERUM_THRESHOLDS ==
    RangeThreshold(F64FromInt(130), F64FromInt(135), F64FromInt(145), F64FromInt(150))

(* Sodium::range, had it classified with select_range. *)
Sodium_range_inclusive(self) ==
    CASE self.unit = "MeqL" -> select_range(self.value, NA_SERUM_THRESHOLDS)
      [] self.unit = "MmolL" -> select_range(self.value, NA_SERUM_THRESHOLDS)

(* NumericRanged::range for Sodium<MeqL> and Sodium<MmolL> *)
Sodium_range(self) ==
    CASE self.unit = "MeqL" ->
            CHOOSE r \in
                {IF F64Lt(v, t.crit_low) THEN "CriticalLow"
                 ELSE IF F64Lt(v, t.low_norm) THEN "Low"
                 ELSE IF F64Lt(v, t.norm_hi) THEN "Normal"
                 ELSE IF F64Lt(v, t.hi_crit) THEN "High"
                 ELSE "CriticalHigh" :
                 v \in {self.value}, t \in {NA_SERUM_THRESHOLDS}} : TRUE
      [] self.unit = "MmolL" ->
            CHOOSE r \in
                {IF F64Lt(v, t.crit_low) THEN "CriticalLow"
                 ELSE IF F64Lt(v, t.low_norm) THEN "Low"
                 ELSE IF F64Lt(v, t.norm_hi) THEN "Normal"
                 ELSE IF F64Lt(v, t.hi_crit) THEN "High"
                 ELSE "CriticalHigh" :
                 v \in {self.value}, t \in {NA_SERUM_THRESHOLDS}} : TRUE

GLU_SERUM_THRESHOLDS_MGDL ==
    RangeThreshold(F64FromInt(60), F64FromInt(85), F64FromInt(125), F64FromInt(200))

(* The mmol/L table, had norm_hi been left in mg/dL. *)
GLU_SERUM_THRESHOLDS_MMOLL_norm_hi_unscaled ==
    CHOOSE r \in
        {RangeThreshold(F64Mul(t.crit_low, f), F64Mul(t.low_norm, f),
                        t.norm_hi, F64Mul(t.hi_crit, f)) :
         t \in {GLU_SERUM_THRESHOLDS_MGDL}, f \in {GLU_MGDL_TO_MMOLL}} : TRUE

GLU_SERUM_THRESHOLDS_MMOLL ==
    CHOOSE r \in
        {RangeThreshold(F64Mul(t.crit_low, f), F64Mul(t.low_norm, f),
                        F64Mul(t.norm_hi, f), F64Mul(t.hi_crit, f)) :
         t \in {GLU_SERUM_THRESHOLDS_MGDL}, f \in {GLU_MGDL_TO_MMOLL}} : TRUE

(* Glucose::range, had the arms of Low and Normal been written in the      *)
(* other order.                                                            *)
Glucose_range_arms_swapped(self) ==
    CASE self.unit = "MgdL" ->
            CHOOSE r \in
                {IF F64Lt(v, t.crit_low) THEN "CriticalLow"
                 ELSE IF F64Lt(v, t.low_norm) THEN "Normal"
                 ELSE IF F64Lt(v, t.norm_hi) THEN "Low"
                 ELSE IF F64Lt(v, t.hi_crit) THEN "High"
                 ELSE "CriticalHigh" :
                 v \in {self.value}, t \in {GLU_SERUM_THRESHOLDS_MGDL}} : TRUE
      [] self.unit = "MmolL" ->
            CHOOSE r \in
                {IF F64Lt(v, t.crit_low) THEN "CriticalLow"
                 ELSE IF F64Lt(v, t.low_norm) THEN "Normal"
                 ELSE IF F64Lt(v, t.norm_hi) THEN "Low"
                 ELSE IF F64Lt(v, t.hi_crit) THEN "High"
                 ELSE "CriticalHigh" :
                 v \in {self.value}, t \in {GLU_SERUM_THRESHOLDS_MMOLL}} : TRUE

(* NumericRanged::range for Glucose<MgdL> and Glucose<MmolL> *)
Glucose_range(self) ==
    CASE self.unit = "MgdL" ->
            CHOOSE r \in
                {IF F64Lt(v, t.crit_low) THEN "CriticalLow"
                 ELSE IF F64Lt(v, t.low_norm) THEN "Low"
                 ELSE IF F64Lt(v, t.norm_hi) THEN "Normal"
                 ELSE IF F64Lt(v, t.hi_crit) THEN "High"
                 ELSE "CriticalHigh" :
                 v \in {self.value}, t \in {GLU_SERUM_THRESHOLDS_MGDL}} : TRUE
      [] self.unit = "MmolL" ->
            CHOOSE r \in
                {IF F64Lt(v, t.crit_low) THEN "CriticalLow"
                 ELSE IF F64Lt(v, t.low_norm) THEN "Low"
                 ELSE IF F64Lt(v, t.norm_hi) THEN "Normal"
                 ELSE IF F64Lt(v, t.hi_crit) THEN "High"
                 ELSE "CriticalHigh" :
                 v \in {self.value}, t \in {GLU_SERUM_THRESHOLDS_MMOLL}} : TRUE

----------------------------------------------------------------------------
(* Series of range classifications: a caller holds a table or a Kind in    *)
(* one unit and classifies one value and then another, by select_range or  *)
(* by range() on a bilirubin, creatinine, glucose or sodium.  The values   *)
(* are the f64s at and next to the cut points and the decimals of the      *)
(* tests.  The value and the result of the first call are kept, and a      *)
(* series is two calls long.                                               *)

RangedKinds == {"Bilirubin", "Creatinine", "Glucose", "Sodium"}

(* The threshold table range() reads for a Kind in a unit. *)
TableOf(kind, unit) ==
    CASE kind = "Bilirubin" /\ unit = "MgdL" -> SERUM_BILI_RANGES_MGDL
      [] kind = "Bilirubin" /\ unit = "UmolL" -> SERUM_BILI_RANGES_UMOLL
      [] kind = "Creatinine" /\ unit = "MgdL" -> SCR_THRESHOLDS_MG_DL
      [] kind = "Creatinine" /\ unit = "UmolL" -> SCR_THRESHOLDS_UMOL_L
      [] kind = "Glucose" /\ unit = "MgdL" -> GLU_SERUM_THRESHOLDS_MGDL
      [] kind = "Glucose" /\ unit = "MmolL" -> GLU_SERUM_THRESHOLDS_MMOLL
      [] kind = "Sodium" -> NA_SERUM_THRESHOLDS

Cuts(t) == {t.crit_low, t.low_norm, t.norm_hi, t.hi_crit}

Quantity_from(kind, unit, value) ==
    CASE kind = "Bilirubin" -> Bilirubin_from(unit, value)
      [] kind = "Creatinine" -> Creatinine_from(unit, value)
      [] kind = "Glucose" -> Glucose_from(unit, value)
      [] kind = "Sodium" -> Sodium_from(unit, value)

Quantity_range(kind, q) ==
    CASE kind = "Bilirubin" -> Bilirubin_range(q)
      [] kind = "Creatinine" -> Creatinine_range(q)
      [] kind = "Glucose" -> Glucose_range(q)
      [] kind = "Sodium" -> Sodium_range(q)

(* The other unit of a quantity's Kind. *)
OtherUnit(kind, unit) == CHOOSE u \in UnitsOf(kind) : u # unit

(* The f64 next above and next below a positive f64. *)
F64NextUp(x) == F64Round(x.sign, BigAdd(x.mant, BigOne), x.exp, FALSE)

F64NextDown(x) ==
    IF x.mant = BigShl(BigOne, MantBits - 1)
    THEN [sign |-> x.sign, mant |-> BigSub(BigShl(BigOne, MantBits), BigOne),
          exp |-> x.exp - 1]
    ELSE [x EXCEPT !.mant = BigSub(x.mant, BigOne)]

(* The f64 k places above (below, for negative k) a positive f64. *)
RECURSIVE F64Step(_, _)
F64Step(x, k) ==
    IF k = 0 THEN x
    ELSE IF k > 0 THEN F64Step(F64NextUp(x), k - 1)
    ELSE F64Step(F64NextDown(x), k + 1)

(* How many f64s on each side of a cut point are classified. *)
UlpSpan == 1

(* The f64s at and next to the cut points of a table. *)
AroundCuts(t) == {F64Step(c, k) : c \in Cuts(t), k \in (-UlpSpan)..UlpSpan}

(* The decimals the tests classify. *)
TestLits(kind, unit) ==
    CASE kind = "Sodium" ->
            {<<110, 1>>, <<130, 1>>, <<135, 1>>, <<1449, 10>>, <<148, 1>>, <<155, 1>>}
      [] kind = "Glucose" /\ unit = "MgdL" ->
            {<<50, 1>>, <<75, 1>>, <<100, 1>>, <<125, 1>>, <<300, 1>>}
      [] kind = "Glucose" /\ unit = "MmolL" ->
            {<<3, 1>>, <<4, 1>>, <<5, 1>>, <<7, 1>>, <<12, 1>>}
      [] kind \in {"Bilirubin", "Creatinine"} -> KindLits(kind, unit)

(* The values classified for a Kind in a unit: the neighbourhoods of its   *)
(* cut points, those of the other unit's cut points converted into this    *)
(* unit, and the decimals of the tests.                                    *)
RangedValues(kind, unit) ==
    AroundCuts(TableOf(kind, unit))
    \cup {Quantity_into(kind, unit,
                        Quantity_from(kind, OtherUnit(kind, unit), v)).value :
             v \in AroundCuts(TableOf(kind, OtherUnit(kind, unit)))}
    \cup {Lit(v[1], v[2]) : v \in TestLits(kind, unit)}

InitRanged ==
    /\ BuilderIdle
    /\ NaIdle
    /\ ConvIdle
    /\ CalcIdle
    /\ range_out = NoResult
    /\ lits = NoQuantity
    /\ \/ \E c \in AscendingCuts :
            range_in = [kind |-> "select_range",
                        thresholds |-> RangeThreshold(F64FromInt(c[1]), F64FromInt(c[2]),
                                                      F64FromInt(c[3]), F64FromInt(c[4])),
                        values |-> {Lit(n, 2) : n \in Halves},
                        value |-> F64Zero,
                            previous |-> [value |-> F64Zero, range |-> NoResult]]
       \/ \E kind \in RangedKinds :
            \E unit \in UnitsOf(kind) :
                range_in = [kind |-> kind,
                            unit |-> unit,
                            values |-> RangedValues(kind, unit),
                            value |-> F64Zero,
                            previous |-> [value |-> F64Zero, range |-> NoResult]]

NotRanged == <<va, vasc, call, calc_done, na_in, glu_in, na_out, lits, conv, calc>>

(* select_range(value, &thresholds), on the next value of the series. *)
SelectRangeNext ==
    /\ range_in # NoQuantity
    /\ range_in.kind = "select_range"
    /\ range_in.previous.range = NoResult
    /\ \E v \in range_in.values :
          /\ range_in' = [range_in EXCEPT !.value = v,
                                               !.previous = [value |-> range_in.value,
                                                             range |-> range_out]]
          /\ range_out' = select_range(v, range_in.thresholds)
    /\ UNCHANGED NotRanged

(* Bilirubin::from(value).range(), on the next value of the series. *)
BilirubinRangeNext ==
    /\ range_in # NoQuantity
    /\ range_in.kind = "Bilirubin"
    /\ range_in.previous.range = NoResult
    /\ \E v \in range_in.values :
          /\ range_in' = [range_in EXCEPT !.value = v,
                                               !.previous = [value |-> range_in.value,
                                                             range |-> range_out]]
          /\ range_out' = Bilirubin_range(Bilirubin_from(range_in.unit, v))
    /\ UNCHANGED NotRanged

(* Creatinine::from(value).range(), on the next value of the series. *)
CreatinineRangeNext ==
    /\ range_in # NoQuantity
    /\ range_in.kind = "Creatinine"
    /\ range_in.previous.range = NoResult
    /\ \E v \in range_in.values :
          /\ range_in' = [range_in EXCEPT !.value = v,
                                               !.previous = [value |-> range_in.value,
                                                             range |-> range_out]]
          /\ range_out' = Creatinine_range(Creatinine_from(range_in.unit, v))
    /\ UNCHANGED NotRanged

(* Glucose::from(value).range(), on the next value of the series. *)
GlucoseRangeNext ==
    /\ range_in # NoQuantity
    /\ range_in.kind = "Glucose"
    /\ range_in.previous.range = NoResult
    /\ \E v \in range_in.values :
          /\ range_in' = [range_in EXCEPT !.value = v,
                                               !.previous = [value |-> range_in.value,
                                                             range |-> range_out]]
          /\ range_out' = Glucose_range(Glucose_from(range_in.unit, v))
    /\ UNCHANGED NotRanged

(* Sodium::from(value).range(), on the next value of the series. *)
SodiumRangeNext ==
    /\ range_in # NoQuantity
    /\ range_in.kind = "Sodium"
    /\ range_in.previous.range = NoResult
    /\ \E v \in range_in.values :
          /\ range_in' = [range_in EXCEPT !.value = v,
                                               !.previous = [value |-> range_in.value,
                                                             range |-> range_out]]
          /\ range_out' = Sodium_range(Sodium_from(range_in.unit, v))
    /\ UNCHANGED NotRanged

NextRanged ==
    \/ SelectRangeNext
    \/ BilirubinRangeNext
    \/ CreatinineRangeNext
    \/ GlucoseRangeNext
    \/ SodiumRangeNext

SpecRanged == InitRanged /\ [][NextRanged]_vars

----------------------------------------------------------------------------
(* Properties of the range classifications, checked under SpecRanged.      *)

Rank(r) ==
    CASE r = "CriticalLow" -> 0
      [] r = "Low" -> 1
      [] r = "Normal" -> 2
      [] r = "High" -> 3
      [] r = "CriticalHigh" -> 4

(* How many of the four cut points of a table are at or below a value. *)
CutsAtOrBelow(v, t) ==
    (IF F64Le(t.crit_low, v) THEN 1 ELSE 0) + (IF F64Le(t.low_norm, v) THEN 1 ELSE 0)
    + (IF F64Le(t.norm_hi, v) THEN 1 ELSE 0) + (IF F64Le(t.hi_crit, v) THEN 1 ELSE 0)

Ascending(t) ==
    /\ F64Le(t.crit_low, t.low_norm)
    /\ F64Le(t.low_norm, t.norm_hi)
    /\ F64Le(t.norm_hi, t.hi_crit)

(* range() has been called on a quantity of one of the kinds. *)
RangedCalled(kinds) ==
    /\ range_in # NoQuantity
    /\ range_in.kind \in kinds
    /\ range_out # NoResult

(* C25: range() on a sodium and on a glucose compares with <: the category *)
(* counts the cut points at or below the value, so a value equal to a cut  *)
(* point gets the range above it (sodium 130 is Low, sodium 135 is Normal, *)
(* glucose 125 mg/dL is High) and a value at or above hi_crit is           *)
(* CriticalHigh; on every value that is not a cut point the result is that *)
(* of select_range on the same table.                                      *)
C25_StrictClassifiers ==
    RangedCalled({"Sodium", "Glucose"}) =>
        /\ Rank(range_out) = CutsAtOrBelow(range_in.value, TableOf(range_in.kind, range_in.unit))
        /\ F64Ge(range_in.value, TableOf(range_in.kind, range_in.unit).hi_crit)
              => range_out = "CriticalHigh"
        /\ (range_in.kind = "Sodium" /\ range_in.value = F64FromInt(130))
              => range_out = "Low"
        /\ (range_in.kind = "Sodium" /\ range_in.value = F64FromInt(135))
              => range_out = "Normal"
        /\ (range_in.kind = "Glucose" /\ range_in.unit = "MgdL"
                /\ range_in.value = F64FromInt(125))
              => range_out = "High"
        /\ range_in.value \notin Cuts(TableOf(range_in.kind, range_in.unit))
              => range_out = select_range(range_in.value,
                                          TableOf(range_in.kind, range_in.unit))

(* A sodium of exactly 130 mEq/L, the crit_low cut point, has been         *)
(* classified Low.                                                         *)
C25_Witness ==
    /\ RangedCalled({"Sodium"})
    /\ range_in.unit = "MeqL"
    /\ range_in.value = NA_SERUM_THRESHOLDS.crit_low
    /\ range_out = "Low"

(* C23: every threshold table of the program (bilirubin, creatinine and    *)
(* glucose in both of their units, and sodium) has ascending cut points:   *)
(* crit_low <= low_norm <= norm_hi <= hi_crit.                             *)
C23_TablesAscending ==
    RangedCalled(RangedKinds) =>
        \A kind \in RangedKinds :
            \A unit \in UnitsOf(kind) : Ascending(TableOf(kind, unit))

(* A glucose in mmol/L has been classified High against the scaled table:  *)
(* above norm_hi and below hi_crit.                                        *)
C23_Witness ==
    /\ RangedCalled({"Glucose"})
    /\ range_in.unit = "MmolL"
    /\ range_in.value = F64FromInt(7)
    /\ range_out = "High"

(* C29: of two values classified against the same ascending table, by      *)
(* select_range or by range() of any kind, the smaller is not given a      *)
(* higher category than the larger, in the order CriticalLow < Low <       *)
(* Normal < High < CriticalHigh; every value is given one of the five      *)
(* categories.                                                             *)
C29_Monotone ==
    (range_in # NoQuantity /\ range_out # NoResult) =>
        /\ range_out \in ResultRange
        /\ range_in.previous.range # NoResult =>
              /\ F64Le(range_in.previous.value, range_in.value)
                    => Rank(range_in.previous.range) <= Rank(range_out)
              /\ F64Le(range_in.value, range_in.previous.value)
                    => Rank(range_out) <= Rank(range_in.previous.range)

(* A glucose just below the norm_hi cut point in mmol/L was classified     *)
(* Normal, and then the cut point itself High.                             *)
C29_Witness ==
    /\ RangedCalled({"Glucose"})
    /\ range_in.unit = "MmolL"
    /\ range_in.previous.value = F64NextDown(GLU_SERUM_THRESHOLDS_MMOLL.norm_hi)
    /\ range_in.previous.range = "Normal"
    /\ range_in.value = GLU_SERUM_THRESHOLDS_MMOLL.norm_hi
    /\ range_out = "High"

(* select_range classified the value 1 as Low and then 3/2 as Normal,      *)
(* against a table of the caller.                                          *)
SelectRangeSeries ==
    /\ RangedCalled({"select_range"})
    /\ range_in.previous.value = F64FromInt(1)
    /\ range_in.previous.range = "Low"
    /\ range_in.value = Lit(3, 2)
    /\ range_out = "Normal"

----------------------------------------------------------------------------
(* The classifications of one quantity in the two units of its Kind,       *)
(* checked under SpecRanged.                                               *)

(* The kinds with a table in each of two units. *)
ScaledKinds == {"Bilirubin", "Creatinine", "Glucose"}

(* The unit of the table written in literals, and the factor that scales   *)
(* it into the table of the other unit.                                    *)
FirstUnit(kind) == "MgdL"

TableFactor(kind) ==
    CASE kind = "Bilirubin" -> SBILI_MGDL_TO_UMOLL
      [] kind = "Creatinine" -> SCR_MGDL_TO_UMOLL
      [] kind = "Glucose" -> GLU_MGDL_TO_MMOLL

(* The second table of a kind is the first with every cut point scaled. *)
TableScaled(kind) ==
    TableOf(kind, OtherUnit(kind, FirstUnit(kind))) =
        RangeThreshold(F64Mul(TableOf(kind, FirstUnit(kind)).crit_low, TableFactor(kind)),
                       F64Mul(TableOf(kind, FirstUnit(kind)).low_norm, TableFactor(kind)),
                       F64Mul(TableOf(kind, FirstUnit(kind)).norm_hi, TableFactor(kind)),
                       F64Mul(TableOf(kind, FirstUnit(kind)).hi_crit, TableFactor(kind)))

(* range() of the classified quantity converted into the other unit. *)
RangeInOtherUnit ==
    Quantity_range(range_in.kind,
                   Quantity_into(range_in.kind, OtherUnit(range_in.kind, range_in.unit),
                                 Quantity_from(range_in.kind, range_in.unit,
                                               range_in.value)))

(* The classified value is within a relative 1e-9 of a cut point of its    *)
(* table.                                                                  *)
NearCut ==
    \E c \in Cuts(TableOf(range_in.kind, range_in.unit)) : WithinRel1e9(range_in.value, c)

(* C22 as stated: the second table is the first one scaled, and every      *)
(* value has the range of the same quantity converted to the other unit.   *)
C22_SameRangeInBothUnits ==
    RangedCalled(ScaledKinds) =>
        /\ TableScaled(range_in.kind)
        /\ RangeInOtherUnit = range_out

(* C22: for bilirubin, creatinine and glucose the second unit's table is   *)
(* the first with every cut point multiplied by the Kind's factor; a value *)
(* that is not within a relative 1e-9 of a cut point of its table, and a   *)
(* value that is a cut point of the mg/dL table, has the range of the same *)
(* quantity converted to the other unit; within 1e-9 of a cut point the    *)
(* two ranges are the same or next to each other.                          *)
C22_SameRangeAwayFromCuts ==
    RangedCalled(ScaledKinds) =>
        /\ TableScaled(range_in.kind)
        /\ ~NearCut => RangeInOtherUnit = range_out
        /\ (range_in.unit = FirstUnit(range_in.kind)
                /\ range_in.value \in Cuts(TableOf(range_in.kind, range_in.unit)))
              => RangeInOtherUnit = range_out
        /\ NearCut =>
              /\ Rank(RangeInOtherUnit) <= Rank(range_out) + 1
              /\ Rank(range_out) <= Rank(RangeInOtherUnit) + 1

(* A creatinine at the hi_crit cut point of the umol/L table has been      *)
(* classified High, and its conversion to mg/dL is CriticalHigh.           *)
C22_Witness ==
    /\ RangedCalled({"Creatinine"})
    /\ range_in.unit = "UmolL"
    /\ range_in.value = SCR_THRESHOLDS_UMOL_L.hi_crit
    /\ range_out = "High"
    /\ RangeInOtherUnit = "CriticalHigh"

(* A creatinine of 53.03 umol/L, away from every cut point, has been       *)
(* classified CriticalLow, as its conversion to mg/dL is.                  *)
AwayFromCuts ==
    /\ RangedCalled({"Creatinine"})
    /\ range_in.unit = "UmolL"
    /\ range_in.value = Lit(5303, 100)
    /\ ~NearCut
    /\ range_out = "CriticalLow"
    /\ RangeInOtherUnit = "CriticalLow"

----------------------------------------------------------------------------
(* units.rs and the constructors of lab/: which quantities a caller can    *)
(* build, and hand to meld.  A quantity is built from an f64 by a From     *)
(* impl or by an extension method on f64, or from another quantity by a    *)
(* unit conversion; meld takes an Inr<I> for any I: Unit.  A caller builds  *)
(* and converts quantities, then calls meld once.                          *)

(* The types that implement Unit. *)
Unit ==
    {"InrUnit", "GfrUnit", "MeqL", "MgdL", "MmolL", "UmolL", "Kg", "Lb", "Meter", "Foot",
     "KgM2"}

(* The impls of From<f64>, as <<kind, unit>>. *)
FromF64Impls ==
    {<<"Sodium", U>> : U \in {"MeqL", "MmolL"}}
    \cup {<<"Glucose", U>> : U \in {"MgdL", "MmolL"}}
    \cup {<<"Creatinine", U>> : U \in {"MgdL", "UmolL"}}
    \cup {<<"Inr", U>> : U \in Unit}
    \cup {<<"Gfr", "GfrUnit">>}

(* The extension methods on f64, as <<kind, unit>> of what they return. *)
ExtMethods ==
    {<<"Sodium", "MeqL">>, <<"Sodium", "MmolL">>, <<"Glucose", "MgdL">>,
     <<"Glucose", "MmolL">>, <<"Creatinine", "MgdL">>, <<"Creatinine", "UmolL">>,
     <<"Bilirubin", "UmolL">>, <<"Bilirubin", "MgdL">>, <<"Inr", "InrUnit">>,
     <<"Gfr", "GfrUnit">>, <<"Weight", "Kg">>, <<"Weight", "Lb">>, <<"Height", "Meter">>,
     <<"Height", "Foot">>, <<"Bmi", "KgM2">>}

(* The values built are the whole numbers 1..MaxBuildLit. *)
MaxBuildLit == 3

BuildLits == 1..MaxBuildLit

Built(kind, U, value) == [kind |-> kind, quantity |-> [value |-> value, unit |-> U]]

InitUnits ==
    /\ BuilderIdle
    /\ NaIdle
    /\ RangeIdle
    /\ ConvIdle
    /\ CalcIdle
    /\ lits = NoQuantity

NotUnits == <<va, vasc, call, calc_done, na_in, glu_in, na_out, range_in, range_out, lits>>

(* Kind::<U>::from(value) *)
BuildFromF64 ==
    /\ calc = NoQuantity
    /\ \E impl \in FromF64Impls, n \in BuildLits :
          conv' = Built(impl[1], impl[2], F64FromInt(n))
    /\ UNCHANGED calc
    /\ UNCHANGED NotUnits

(* value.na_serum_meq(), value.inr(), value.weight_kg(), ... *)
BuildByExt ==
    /\ calc = NoQuantity
    /\ \E method \in ExtMethods, n \in BuildLits :
          conv' = Built(method[1], method[2], F64FromInt(n))
    /\ UNCHANGED calc
    /\ UNCHANGED NotUnits

(* Kind::<U2>::from(quantity), for the kinds with two units. *)
ConvertBuilt ==
    /\ calc = NoQuantity
    /\ conv # NoQuantity
    /\ conv.kind \in Kinds
    /\ conv.quantity.unit \in UnitsOf(conv.kind)
    /\ \E U \in UnitsOf(conv.kind) \ {conv.quantity.unit} :
          conv' = [conv EXCEPT !.quantity = Quantity_into(conv.kind, U, conv.quantity)]
    /\ UNCHANGED calc
    /\ UNCHANGED NotUnits

(* meld(bili, inr, scr, None) with the INR last built. *)
MeldBuilt ==
    /\ calc = NoQuantity
    /\ conv # NoQuantity
    /\ conv.kind = "Inr"
    /\ \E B \in BilirubinUnit, C \in CreatinineUnit, n \in BuildLits :
          calc' = [fn |-> "meld",
                   bili |-> Bilirubin_from(B, F64FromInt(n)),
                   inr |-> conv.quantity,
                   scr |-> Creatinine_from(C, F64FromInt(n)),
                   last_hd |-> None,
                   out |-> Some(meld(Bilirubin_from(B, F64FromInt(n)), conv.quantity,
                                     Creatinine_from(C, F64FromInt(n)), None))]
    /\ UNCHANGED conv
    /\ UNCHANGED NotUnits

NextUnits ==
    \/ BuildFromF64
    \/ BuildByExt
    \/ ConvertBuilt
    \/ MeldBuilt

SpecUnits == InitUnits /\ [][NextUnits]_vars

----------------------------------------------------------------------------
(* Properties of the constructors, checked under SpecUnits.                *)

(* The unit tags of each Kind. *)
UnitSetOf(kind) ==
    CASE kind \in Kinds -> UnitsOf(kind)
      [] kind = "Inr" -> {"InrUnit"}
      [] kind = "Gfr" -> {"GfrUnit"}
      [] kind = "Bmi" -> {"KgM2"}

(* C24: every quantity built, and every quantity passed to meld, has a     *)
(* unit tag of its Kind's own set: mEq/L or mmol/L for a sodium, mg/dL or  *)
(* mmol/L for a glucose, mg/dL or umol/L for a creatinine and a bilirubin, *)
(* kg or lb for a weight, m or ft for a height, the INR unit for an INR,   *)
(* mL/min/1.73m2 for a GFR and kg/m2 for a BMI.                            *)
C24_UnitsOfOwnKind ==
    /\ conv # NoQuantity => conv.quantity.unit \in UnitSetOf(conv.kind)
    /\ calc # NoQuantity =>
          /\ calc.bili.unit \in BilirubinUnit
          /\ calc.inr.unit \in {"InrUnit"}
          /\ calc.scr.unit \in CreatinineUnit

(* meld has returned a score for an INR tagged mg/dL. *)
InrInMgdLAccepted ==
    /\ calc # NoQuantity
    /\ calc.inr.unit = "MgdL"
    /\ calc.out # None

============================================================================
